---- MODULE Spec2Model ----
(***************************************************************************)
(* Todo lifecycle and status-transition model of nest-clean-architecture:  *)
(* the TodoTitle and TodoStatus value objects, the Todo entity, the        *)
(* repository implementations (Prisma and in-memory) and the use cases     *)
(* that orchestrate them.                                                  *)
(***************************************************************************)
EXTENDS Integers, Sequences, FiniteSets, TLC

VARIABLES
    now,        \* reading of the wall clock (new Date())
    sv,         \* a TodoStatus value object (its _value)
    svLast,     \* the last TodoStatus call: receiver, argument, outcome
    tv,         \* a TodoTitle value object (its _value)
    tvLast,     \* the last TodoTitle call: argument, outcome
    todo,       \* the Todo entity under direct method calls
    last,       \* the last Todo call: operation, argument, entity before, error
    chain,      \* the current run of consecutive calls of one status method
    repoKind,   \* the TodoRepository implementation in use: "prisma" or "memory"
    rows,       \* the todos by id: table rows (prisma), Todo objects (memory)
    stored,     \* the ids the repository holds
    nextId,     \* the id the next save assigns
    pc,         \* where each caller's execute() stands
    cmd,        \* the command of each caller's execute()
    ent,        \* the Todo each caller holds after findById (its own copy)
    res,        \* what each caller's last execute() returned or threw
    writes,     \* repository save/update/delete invocations of each caller's call
    snap,       \* the todo as each caller's findById saw it
    stale,      \* whether another caller's update landed after this caller's findById
    lastWriter, \* the caller whose repository update landed last
    objs,       \* Todo instances by reference, as Todo.equals is called on them
    eqLast      \* the last Todo.equals call: receiver, argument, result

voVars == <<sv, svLast, tv, tvLast>>
entityVars == <<todo, last, chain>>
equalsVars == <<objs, eqLast>>
storeVars == <<rows, stored, nextId>>
callVars == <<pc, cmd, ent, res, writes, snap, stale, lastWriter>>
useCaseVars == <<repoKind, rows, stored, nextId, pc, cmd, ent, res, writes, snap, stale,
                 lastWriter>>
vars == <<now, sv, svLast, tv, tvLast, todo, last, chain, repoKind, rows, stored, nextId,
          pc, cmd, ent, res, writes, snap, stale, lastWriter, objs, eqLast>>

(***************************************************************************)
(* Bounds of the model.                                                    *)
(***************************************************************************)
MaxClock == 1
ChainCap == 2
MaxId == 2
MaxProcs == 2
MaxTodos == 3
MaxObjs == 2

(***************************************************************************)
(* JavaScript values.  A string is a run of `lead` spaces, then the        *)
(* character `ch` repeated `n` times, then `trail` spaces (the shape of    *)
(* '  ' + 'a'.repeat(n) + '  ').  With n = 0 the string holds only its     *)
(* spaces, all counted in `lead`.                                          *)
(***************************************************************************)
Null == [kind |-> "null"]
Undefined == [kind |-> "undefined"]
UndefinedStatus == "undefined"
NullId == 0

MkStr(lead, ch, n, trail) ==
    IF n = 0
    THEN [kind |-> "str", lead |-> lead + trail, ch |-> "", n |-> 0, trail |-> 0]
    ELSE [kind |-> "str", lead |-> lead, ch |-> ch, n |-> n, trail |-> trail]

EmptyStr == MkStr(0, "", 0, 0)

\* String.prototype.length
StrLength(s) == s.lead + s.n + s.trail

\* String.prototype.trim: drops the leading and the trailing spaces
Trim(s) == MkStr(0, s.ch, s.n, 0)

(***************************************************************************)
(* Domain errors.                                                          *)
(***************************************************************************)
NoError == [kind |-> "none"]

InvalidTodoTitleError(title, reason) ==
    [kind |-> "INVALID_TODO_TITLE", invalidTitle |-> title, reason |-> reason]

InvalidStatusTransitionError(currentStatus, targetStatus) ==
    [kind |-> "INVALID_STATUS_TRANSITION",
     currentStatus |-> currentStatus, targetStatus |-> targetStatus]

TodoNotFoundError(id) == [kind |-> "TODO_NOT_FOUND", todoId |-> id]

\* the plain Error of TodoStatus.fromString
InvalidStatusLiteralError(value) == [kind |-> "Error", value |-> value]

(***************************************************************************)
(* TodoTitle value object.                                                 *)
(***************************************************************************)
MIN_LENGTH == 1
MAX_LENGTH == 100

\* mutant: the length is checked on the trimmed value but the raw value is kept
TodoTitle_create_untrimmed(value) ==
    IF value = Null \/ value = Undefined
    THEN [ok |-> FALSE, value |-> Null,
          err |-> InvalidTodoTitleError(EmptyStr, "empty")]
    ELSE LET trimmed == Trim(value) IN
         IF StrLength(trimmed) = 0
         THEN [ok |-> FALSE, value |-> Null,
               err |-> InvalidTodoTitleError(EmptyStr, "empty")]
         ELSE IF StrLength(trimmed) > MAX_LENGTH
         THEN [ok |-> FALSE, value |-> Null,
               err |-> InvalidTodoTitleError(trimmed, "tooLong")]
         ELSE [ok |-> TRUE, value |-> value, err |-> NoError]

\* mutant: a title of exactly MAX_LENGTH characters is rejected
TodoTitle_create_offByOne(value) ==
    IF value = Null \/ value = Undefined
    THEN [ok |-> FALSE, value |-> Null,
          err |-> InvalidTodoTitleError(EmptyStr, "empty")]
    ELSE LET trimmed == Trim(value) IN
         IF StrLength(trimmed) = 0
         THEN [ok |-> FALSE, value |-> Null,
               err |-> InvalidTodoTitleError(EmptyStr, "empty")]
         ELSE IF StrLength(trimmed) >= MAX_LENGTH
         THEN [ok |-> FALSE, value |-> Null,
               err |-> InvalidTodoTitleError(trimmed, "tooLong")]
         ELSE [ok |-> TRUE, value |-> trimmed, err |-> NoError]

\* mutant: the length limit is applied to the untrimmed value
TodoTitle_create_rawLength(value) ==
    IF value = Null \/ value = Undefined
    THEN [ok |-> FALSE, value |-> Null,
          err |-> InvalidTodoTitleError(EmptyStr, "empty")]
    ELSE LET trimmed == Trim(value) IN
         IF StrLength(trimmed) = 0
         THEN [ok |-> FALSE, value |-> Null,
               err |-> InvalidTodoTitleError(EmptyStr, "empty")]
         ELSE IF StrLength(value) > MAX_LENGTH
         THEN [ok |-> FALSE, value |-> Null,
               err |-> InvalidTodoTitleError(trimmed, "tooLong")]
         ELSE [ok |-> TRUE, value |-> trimmed, err |-> NoError]

TodoTitle_create(value) ==
    IF value = Null \/ value = Undefined
    THEN [ok |-> FALSE, value |-> Null,
          err |-> InvalidTodoTitleError(EmptyStr, "empty")]
    ELSE LET trimmed == Trim(value) IN
         IF StrLength(trimmed) = 0
         THEN [ok |-> FALSE, value |-> Null,
               err |-> InvalidTodoTitleError(EmptyStr, "empty")]
         ELSE IF StrLength(trimmed) < MIN_LENGTH
         THEN [ok |-> FALSE, value |-> Null,
               err |-> InvalidTodoTitleError(trimmed, "tooShort")]
         ELSE IF StrLength(trimmed) > MAX_LENGTH
         THEN [ok |-> FALSE, value |-> Null,
               err |-> InvalidTodoTitleError(trimmed, "tooLong")]
         ELSE [ok |-> TRUE, value |-> trimmed, err |-> NoError]

TodoTitle_reconstruct(value) == value

TodoTitle_equals(a, b) == a = b

(***************************************************************************)
(* TodoStatus value object.                                                *)
(***************************************************************************)
TODO_STATUS == {"PENDING", "IN_PROGRESS", "COMPLETED"}

\* mutants of the transition table: COMPLETED may go straight back to
\* IN_PROGRESS; COMPLETED is a dead end
ALLOWED_TRANSITIONS_reopen(value) ==
    CASE value = "PENDING" -> <<"IN_PROGRESS", "COMPLETED">>
      [] value = "IN_PROGRESS" -> <<"COMPLETED", "PENDING">>
      [] value = "COMPLETED" -> <<"PENDING", "IN_PROGRESS">>

ALLOWED_TRANSITIONS_terminal(value) ==
    CASE value = "PENDING" -> <<"IN_PROGRESS", "COMPLETED">>
      [] value = "IN_PROGRESS" -> <<"COMPLETED", "PENDING">>
      [] value = "COMPLETED" -> <<>>

ALLOWED_TRANSITIONS(value) ==
    CASE value = "PENDING" -> <<"IN_PROGRESS", "COMPLETED">>
      [] value = "IN_PROGRESS" -> <<"COMPLETED", "PENDING">>
      [] value = "COMPLETED" -> <<"PENDING">>

\* Array.prototype.includes
Includes(seq, x) == \E i \in 1..Len(seq) : seq[i] = x

TodoStatus_default == "PENDING"

TodoStatus_create(status) == status

\* mutant: an unknown status string falls back to the default status
TodoStatus_fromString_fallback(value) ==
    IF value \in TODO_STATUS
    THEN [ok |-> TRUE, value |-> value, err |-> NoError]
    ELSE [ok |-> TRUE, value |-> TodoStatus_default, err |-> NoError]

TodoStatus_fromString(value) ==
    IF value \in TODO_STATUS
    THEN [ok |-> TRUE, value |-> value, err |-> NoError]
    ELSE [ok |-> FALSE, value |-> value, err |-> InvalidStatusLiteralError(value)]

canTransitionTo(value, target) ==
    IF value = target
    THEN FALSE
    ELSE Includes(ALLOWED_TRANSITIONS(value), target)

\* returns the new status; the receiver is left as it is
transitionTo(value, target) ==
    IF ~canTransitionTo(value, target)
    THEN [ok |-> FALSE, value |-> value,
          err |-> InvalidStatusTransitionError(value, target)]
    ELSE [ok |-> TRUE, value |-> target, err |-> NoError]

getAvailableTransitions(value) == ALLOWED_TRANSITIONS(value)

isCompleted(value) == value = "COMPLETED"
isPending(value) == value = "PENDING"
isInProgress(value) == value = "IN_PROGRESS"

(***************************************************************************)
(* Todo entity.  A method returns the entity as the call leaves it and the *)
(* error it threw (NoError when it returned).                              *)
(***************************************************************************)
NoTodo == [kind |-> "none"]

Returned(t) == [todo |-> t, err |-> NoError]
Thrown(t, e) == [todo |-> t, err |-> e]

\* mutant: a created entity whose updatedAt is the epoch instead of the clock
Todo_create_epochUpdatedAt(title, description, clock) ==
    LET vo == TodoTitle_create(title) IN
    IF ~vo.ok
    THEN Thrown(NoTodo, vo.err)
    ELSE Returned([id |-> NullId,
                   title |-> vo.value,
                   description |-> IF description = Undefined THEN Null ELSE description,
                   status |-> TodoStatus_default,
                   createdAt |-> clock,
                   updatedAt |-> 0])

\* mutant: a created entity starts IN_PROGRESS
Todo_create_inProgress(title, description, clock) ==
    LET vo == TodoTitle_create(title) IN
    IF ~vo.ok
    THEN Thrown(NoTodo, vo.err)
    ELSE Returned([id |-> NullId,
                   title |-> vo.value,
                   description |-> IF description = Undefined THEN Null ELSE description,
                   status |-> "IN_PROGRESS",
                   createdAt |-> clock,
                   updatedAt |-> clock])

Todo_create(title, description, clock) ==
    LET vo == TodoTitle_create(title) IN
    IF ~vo.ok
    THEN Thrown(NoTodo, vo.err)
    ELSE Returned([id |-> NullId,
                   title |-> vo.value,
                   description |-> IF description = Undefined THEN Null ELSE description,
                   status |-> TodoStatus_default,
                   createdAt |-> clock,
                   updatedAt |-> clock])

Todo_reconstruct(id, title, description, status, createdAt, updatedAt) ==
    LET st == TodoStatus_fromString(status) IN
    IF ~st.ok
    THEN Thrown(NoTodo, st.err)
    ELSE Returned([id |-> id,
                   title |-> TodoTitle_reconstruct(title),
                   description |-> description,
                   status |-> st.value,
                   createdAt |-> createdAt,
                   updatedAt |-> updatedAt])

\* mutant: complete() without the early return for a completed entity
Todo_complete_restamp(t, clock) ==
    Returned([t EXCEPT !.status = "COMPLETED", !.updatedAt = clock])

Todo_complete(t, clock) ==
    IF isCompleted(t.status)
    THEN Returned(t)
    ELSE LET st == transitionTo(t.status, "COMPLETED") IN
         IF ~st.ok
         THEN Thrown(t, st.err)
         ELSE Returned([t EXCEPT !.status = st.value, !.updatedAt = clock])

\* mutant: uncomplete() that only reopens a completed entity
Todo_uncomplete_completedOnly(t, clock) ==
    IF ~isCompleted(t.status)
    THEN Returned(t)
    ELSE Returned([t EXCEPT !.status = "PENDING", !.updatedAt = clock])

\* mutant: uncomplete resumes the work (IN_PROGRESS) instead of resetting it
Todo_uncomplete_resumes(t, clock) ==
    IF isPending(t.status)
    THEN Returned(t)
    ELSE Returned([t EXCEPT !.status = "IN_PROGRESS", !.updatedAt = clock])

Todo_uncomplete(t, clock) ==
    IF isPending(t.status)
    THEN Returned(t)
    ELSE LET st == transitionTo(t.status, "PENDING") IN
         IF ~st.ok
         THEN Thrown(t, st.err)
         ELSE Returned([t EXCEPT !.status = st.value, !.updatedAt = clock])

\* mutant: a toggle that only ever completes
Todo_toggleComplete_onlyComplete(t, clock) == Todo_complete(t, clock)

Todo_toggleComplete(t, clock) ==
    IF isCompleted(t.status)
    THEN Todo_uncomplete(t, clock)
    ELSE Todo_complete(t, clock)

\* mutant: the status is assigned without asking the value object
Todo_changeStatus_unchecked(t, newStatus, clock) ==
    IF t.status = newStatus
    THEN Returned(t)
    ELSE Returned([t EXCEPT !.status = newStatus, !.updatedAt = clock])

\* mutant: no shortcut for the current status, the value object is always asked
Todo_changeStatus_noShortcut(t, newStatus, clock) ==
    LET st == transitionTo(t.status, newStatus) IN
    IF ~st.ok
    THEN Thrown(t, st.err)
    ELSE Returned([t EXCEPT !.status = st.value, !.updatedAt = clock])

Todo_changeStatus(t, newStatus, clock) ==
    IF t.status = newStatus
    THEN Returned(t)
    ELSE LET st == transitionTo(t.status, newStatus) IN
         IF ~st.ok
         THEN Thrown(t, st.err)
         ELSE Returned([t EXCEPT !.status = st.value, !.updatedAt = clock])

\* mutant: the raw argument, not the trimmed title, is compared with the current title
Todo_updateTitle_rawCompare(t, newTitle, clock) ==
    LET vo == TodoTitle_create(newTitle) IN
    IF ~vo.ok
    THEN Thrown(t, vo.err)
    ELSE IF TodoTitle_equals(t.title, newTitle)
    THEN Returned(t)
    ELSE Returned([t EXCEPT !.title = vo.value, !.updatedAt = clock])

\* mutant: updatedAt is stamped before the title is validated
Todo_updateTitle_stampFirst(t, newTitle, clock) ==
    LET vo == TodoTitle_create(newTitle) IN
    IF ~vo.ok
    THEN Thrown([t EXCEPT !.updatedAt = clock], vo.err)
    ELSE IF TodoTitle_equals(t.title, vo.value)
    THEN Returned(t)
    ELSE Returned([t EXCEPT !.title = vo.value, !.updatedAt = clock])

Todo_updateTitle(t, newTitle, clock) ==
    LET vo == TodoTitle_create(newTitle) IN
    IF ~vo.ok
    THEN Thrown(t, vo.err)
    ELSE IF TodoTitle_equals(t.title, vo.value)
    THEN Returned(t)
    ELSE Returned([t EXCEPT !.title = vo.value, !.updatedAt = clock])

\* mutant: only the empty string becomes null, nothing is trimmed
Sanitize_emptyOnly(newDescription) ==
    IF newDescription = Null \/ newDescription = Undefined
    THEN Null
    ELSE IF newDescription = EmptyStr THEN Null ELSE newDescription

\* newDescription?.trim() || null
Sanitize(newDescription) ==
    IF newDescription = Null \/ newDescription = Undefined
    THEN Null
    ELSE IF StrLength(Trim(newDescription)) = 0 THEN Null ELSE Trim(newDescription)

\* mutant: updatedAt is stamped whether or not the description changed
Todo_updateDescription_alwaysStamp(t, newDescription, clock) ==
    Returned([t EXCEPT !.description = Sanitize(newDescription), !.updatedAt = clock])

Todo_updateDescription(t, newDescription, clock) ==
    LET sanitized == Sanitize(newDescription) IN
    IF t.description = sanitized
    THEN Returned(t)
    ELSE Returned([t EXCEPT !.description = sanitized, !.updatedAt = clock])

\* mutant: a null description is treated like an absent one
Todo_update_nullAsAbsent(t, params, clock) ==
    LET r1 == IF params.title # Undefined
              THEN Todo_updateTitle(t, params.title, clock)
              ELSE Returned(t)
        r2 == IF params.description # Undefined /\ params.description # Null
              THEN Todo_updateDescription(r1.todo, params.description, clock)
              ELSE Returned(r1.todo)
        r3 == IF params.status # UndefinedStatus
              THEN Todo_changeStatus(r2.todo, params.status, clock)
              ELSE Returned(r2.todo)
    IN  IF r1.err # NoError THEN r1
        ELSE IF r2.err # NoError THEN r2
        ELSE r3

\* mutant: all-or-nothing update, the entity is restored when a field fails
Todo_update_rollback(t, params, clock) ==
    LET r1 == IF params.title # Undefined
              THEN Todo_updateTitle(t, params.title, clock)
              ELSE Returned(t)
        r2 == IF params.description # Undefined
              THEN Todo_updateDescription(r1.todo, params.description, clock)
              ELSE Returned(r1.todo)
        r3 == IF params.status # UndefinedStatus
              THEN Todo_changeStatus(r2.todo, params.status, clock)
              ELSE Returned(r2.todo)
    IN  IF r1.err # NoError THEN Thrown(t, r1.err)
        ELSE IF r3.err # NoError THEN Thrown(t, r3.err)
        ELSE r3

\* mutant: update assigns the requested status without asking the table
Todo_update_assignsStatus(t, params, clock) ==
    LET r1 == IF params.title # Undefined
              THEN Todo_updateTitle(t, params.title, clock)
              ELSE Returned(t)
        r2 == IF params.description # Undefined
              THEN Todo_updateDescription(r1.todo, params.description, clock)
              ELSE Returned(r1.todo)
        r3 == IF params.status # UndefinedStatus
              THEN Returned([r2.todo EXCEPT !.status = params.status, !.updatedAt = clock])
              ELSE Returned(r2.todo)
    IN  IF r1.err # NoError THEN r1
        ELSE IF r2.err # NoError THEN r2
        ELSE r3

Todo_update(t, params, clock) ==
    LET r1 == IF params.title # Undefined
              THEN Todo_updateTitle(t, params.title, clock)
              ELSE Returned(t)
        r2 == IF params.description # Undefined
              THEN Todo_updateDescription(r1.todo, params.description, clock)
              ELSE Returned(r1.todo)
        r3 == IF params.status # UndefinedStatus
              THEN Todo_changeStatus(r2.todo, params.status, clock)
              ELSE Returned(r2.todo)
    IN  IF r1.err # NoError THEN r1
        ELSE IF r2.err # NoError THEN r2
        ELSE r3

Todo_isCompleted(t) == isCompleted(t.status)
Todo_isNew(t) == t.id = NullId
\* mutant: the entity answers for PENDING whatever its status is
Todo_canTransitionTo_fromPending(t, targetStatus) == canTransitionTo("PENDING", targetStatus)

Todo_canTransitionTo(t, targetStatus) == canTransitionTo(t.status, targetStatus)
Todo_getAvailableTransitions(t) == getAvailableTransitions(t.status)

(***************************************************************************)
(* Inputs.                                                                 *)
(***************************************************************************)
StrA == MkStr(0, "a", 1, 0)
StrB == MkStr(0, "b", 1, 0)
StrD == MkStr(0, "d", 1, 0)

TitleInputs ==
    {Null, Undefined, EmptyStr, MkStr(1, "", 0, 0),
     StrA, MkStr(1, "a", 1, 1), StrB,
     MkStr(0, "a", MAX_LENGTH, 0), MkStr(1, "a", MAX_LENGTH, 1),
     MkStr(0, "a", MAX_LENGTH + 1, 0)}

DescriptionInputs == {Null, EmptyStr, MkStr(1, "", 0, 0), StrD, MkStr(1, "d", 1, 0)}

StatusLiterals == TODO_STATUS \cup {"UNKNOWN", ""}

\* the fields of the partial update of Todo.update
UpdateParams ==
    [title : {Undefined, StrB, MkStr(1, "a", 1, 1), EmptyStr},
     description : {Undefined, Null, StrD},
     status : {UndefinedStatus} \cup TODO_STATUS]

\* what the store hands to Todo.reconstruct
StoredTitles == {StrA, StrB}
StoredDescriptions == {Null, StrD}

(***************************************************************************)
(* The clock.                                                              *)
(***************************************************************************)
Tick ==
    /\ now < MaxClock
    /\ now' = now + 1
    /\ UNCHANGED <<voVars, equalsVars, entityVars, useCaseVars>>

(***************************************************************************)
(* Value objects under direct calls.                                       *)
(***************************************************************************)
NoCall == [op |-> "none"]

VOInit ==
    /\ sv = TodoStatus_default
    /\ svLast = NoCall
    /\ tv = StrA
    /\ tvLast = NoCall

StatusCreate ==
    \E status \in TODO_STATUS :
        /\ sv' = TodoStatus_create(status)
        /\ svLast' = [op |-> "create", recv |-> sv, arg |-> status,
                      ret |-> TodoStatus_create(status)]
        /\ UNCHANGED <<now, tv, tvLast, entityVars, equalsVars, useCaseVars>>

StatusFromString ==
    \E value \in StatusLiterals :
        LET r == TodoStatus_fromString(value) IN
        /\ sv' = IF r.ok THEN r.value ELSE sv
        /\ svLast' = [op |-> "fromString", recv |-> sv, arg |-> value, ret |-> r]
        /\ UNCHANGED <<now, tv, tvLast, entityVars, equalsVars, useCaseVars>>

StatusCanTransitionTo ==
    \E target \in TODO_STATUS :
        /\ svLast' = [op |-> "canTransitionTo", recv |-> sv, arg |-> target,
                      ret |-> canTransitionTo(sv, target)]
        /\ UNCHANGED <<now, sv, tv, tvLast, entityVars, equalsVars, useCaseVars>>

StatusTransitionTo ==
    \E target \in TODO_STATUS :
        /\ svLast' = [op |-> "transitionTo", recv |-> sv, arg |-> target,
                      ret |-> transitionTo(sv, target)]
        /\ UNCHANGED <<now, sv, tv, tvLast, entityVars, equalsVars, useCaseVars>>

StatusGetAvailableTransitions ==
    /\ svLast' = [op |-> "getAvailableTransitions", recv |-> sv, arg |-> sv,
                  ret |-> getAvailableTransitions(sv)]
    /\ UNCHANGED <<now, sv, tv, tvLast, entityVars, equalsVars, useCaseVars>>

TitleCreate ==
    \E value \in TitleInputs :
        LET r == TodoTitle_create(value) IN
        /\ tv' = IF r.ok THEN r.value ELSE tv
        /\ tvLast' = [op |-> "create", arg |-> value, ret |-> r]
        /\ UNCHANGED <<now, sv, svLast, entityVars, equalsVars, useCaseVars>>

TitleReconstruct ==
    \E value \in TitleInputs \ {Null, Undefined} :
        /\ tv' = TodoTitle_reconstruct(value)
        /\ tvLast' = [op |-> "reconstruct", arg |-> value,
                      ret |-> TodoTitle_reconstruct(value)]
        /\ UNCHANGED <<now, sv, svLast, entityVars, equalsVars, useCaseVars>>

(***************************************************************************)
(* The Todo entity under direct method calls.                              *)
(***************************************************************************)
NoChain == [op |-> "none", from |-> "none", len |-> 0]

EntityInit ==
    /\ todo = NoTodo
    /\ last = NoCall
    /\ chain = NoChain

\* the run of consecutive successful calls of `op` the call just made belongs to
Chained(op, pre, r) ==
    IF r.err # NoError
    THEN NoChain
    ELSE IF chain.op = op
    THEN [chain EXCEPT !.len = IF chain.len < ChainCap THEN chain.len + 1 ELSE chain.len]
    ELSE [op |-> op, from |-> pre.status, len |-> 1]

\* a method call on the entity: the entity is left as the method left it
Called(op, arg, r) ==
    /\ todo' = r.todo
    /\ last' = [op |-> op, arg |-> arg, pre |-> todo, err |-> r.err, at |-> now]
    /\ chain' = IF op \in {"changeStatus", "toggleComplete"}
                THEN Chained(op, todo, r)
                ELSE NoChain
    /\ UNCHANGED <<now, voVars, equalsVars, useCaseVars>>

\* a factory call: a failed one yields no entity
Made(op, arg, r) ==
    /\ todo' = r.todo
    /\ last' = [op |-> op, arg |-> arg, pre |-> NoTodo, err |-> r.err, at |-> now]
    /\ chain' = NoChain
    /\ UNCHANGED <<now, voVars, equalsVars, useCaseVars>>

Create ==
    /\ todo = NoTodo
    /\ \E title \in TitleInputs, description \in DescriptionInputs \cup {Undefined} :
           Made("create", [title |-> title, description |-> description],
                Todo_create(title, description, now))

Reconstruct ==
    /\ todo = NoTodo
    /\ \E title \in StoredTitles, description \in StoredDescriptions,
          status \in StatusLiterals, createdAt \in 0..now :
           \E updatedAt \in createdAt..now :
               Made("reconstruct", status,
                    Todo_reconstruct(1, title, description, status, createdAt, updatedAt))

Complete ==
    /\ todo # NoTodo
    /\ Called("complete", Null, Todo_complete(todo, now))

Uncomplete ==
    /\ todo # NoTodo
    /\ Called("uncomplete", Null, Todo_uncomplete(todo, now))

ToggleComplete ==
    /\ todo # NoTodo
    /\ Called("toggleComplete", Null, Todo_toggleComplete(todo, now))

ChangeStatus ==
    /\ todo # NoTodo
    /\ \E newStatus \in TODO_STATUS :
           Called("changeStatus", newStatus, Todo_changeStatus(todo, newStatus, now))

UpdateTitle ==
    /\ todo # NoTodo
    /\ \E newTitle \in TitleInputs :
           Called("updateTitle", newTitle, Todo_updateTitle(todo, newTitle, now))

UpdateDescription ==
    /\ todo # NoTodo
    /\ \E newDescription \in DescriptionInputs :
           Called("updateDescription", newDescription,
                  Todo_updateDescription(todo, newDescription, now))

Update ==
    /\ todo # NoTodo
    /\ \E params \in UpdateParams :
           Called("update", params, Todo_update(todo, params, now))

(***************************************************************************)
(* Todo.equals on instances held by reference.                             *)
(***************************************************************************)
Refs == 1..MaxObjs

\* mutant: ids are compared even when both are null
Todo_equals_byIdOnly(self, other) ==
    objs[self].id = objs[other].id

\* this.equals(other), both instances of Todo
Todo_equals(self, other) ==
    IF objs[self].id = NullId /\ objs[other].id = NullId
    THEN self = other
    ELSE objs[self].id = objs[other].id

\* instances Todo.create and Todo.reconstruct hand out
EqualsInstances ==
    {Todo_create(title, Undefined, 0).todo : title \in StoredTitles}
    \cup {Todo_reconstruct(id, title, Null, status, 0, 0).todo :
              id \in 1..2, title \in StoredTitles, status \in {"PENDING", "COMPLETED"}}

EqualsIdle ==
    /\ objs = [r \in Refs |-> NoTodo]
    /\ eqLast = NoCall

EqualsInit ==
    /\ objs \in [Refs -> EqualsInstances]
    /\ eqLast = NoCall

Equals ==
    /\ \E self \in Refs, other \in Refs :
           eqLast' = [op |-> "equals", self |-> self, other |-> other,
                      ret |-> Todo_equals(self, other)]
    /\ UNCHANGED <<now, voVars, entityVars, useCaseVars, objs>>

(***************************************************************************)
(* Repositories and use cases.  Every execute() is cut at its awaits: the  *)
(* repository call that reads, the entity behaviour, the repository call   *)
(* that writes.  PrismaTodoRepository maps rows to fresh Todo objects;     *)
(* InMemoryTodoRepository hands out the very objects its array holds.      *)
(***************************************************************************)
Procs == 1..MaxProcs
Ids == 1..MaxId

NoCmd == [op |-> "none"]
NoRes == [kind |-> "none"]
ReturnedTodo(t) == [kind |-> "returned", todo |-> t]
ReturnedVoid == [kind |-> "returned", todo |-> NoTodo]
Threw(e) == [kind |-> "threw", err |-> e]

\* prisma.todo.update / prisma.todo.delete on a row that is gone
PrismaRecordNotFound == [kind |-> "PrismaClientKnownRequestError"]

\* the Todo a caller works on after findById
Loaded(p) == IF repoKind = "memory" THEN rows[cmd[p].id] ELSE ent[p]

Fields(t) == [title |-> t.title, description |-> t.description, status |-> t.status]

UseCaseInit ==
    /\ rows = [i \in Ids |-> NoTodo]
    /\ stored = {}
    /\ nextId = 1
    /\ pc = [p \in Procs |-> "idle"]
    /\ cmd = [p \in Procs |-> NoCmd]
    /\ ent = [p \in Procs |-> NoTodo]
    /\ res = [p \in Procs |-> NoRes]
    /\ writes = [p \in Procs |-> 0]
    /\ snap = [p \in Procs |-> NoTodo]
    /\ stale = [p \in Procs |-> FALSE]
    /\ lastWriter = 0

\* commands of the use cases
CreateCommands ==
    [op : {"create"}, title : {StrA, EmptyStr}, description : {Undefined, StrD}]

UpdateCommands ==
    [op : {"update"}, id : Ids,
     params : [title : {Undefined, StrB, EmptyStr},
               description : {Undefined, Null, StrD},
               status : {UndefinedStatus} \cup TODO_STATUS]]

IdCommands == [op : {"getById", "toggle", "delete"}, id : Ids]

Commands == CreateCommands \cup UpdateCommands \cup IdCommands

\* a caller invokes execute(command); one caller, one call at a time
Call ==
    /\ pc[1] = "idle"
    /\ \E c \in Commands :
           /\ c.op = "create" => nextId <= MaxId
           /\ pc' = [pc EXCEPT ![1] = "called"]
           /\ cmd' = [cmd EXCEPT ![1] = c]
    /\ UNCHANGED <<now, voVars, equalsVars, entityVars, repoKind, storeVars, ent, res, writes, snap,
                   stale, lastWriter>>

\* the awaiting caller takes what execute() returned or threw
Settle(p) ==
    /\ pc[p] = "done"
    /\ pc' = [pc EXCEPT ![p] = "idle"]
    /\ cmd' = [cmd EXCEPT ![p] = NoCmd]
    /\ ent' = [ent EXCEPT ![p] = NoTodo]
    /\ res' = [res EXCEPT ![p] = NoRes]
    /\ writes' = [writes EXCEPT ![p] = 0]
    /\ snap' = [snap EXCEPT ![p] = NoTodo]
    /\ stale' = [stale EXCEPT ![p] = FALSE]
    /\ UNCHANGED <<now, voVars, equalsVars, entityVars, repoKind, storeVars, lastWriter>>

\* the call of caller p ends with result r
Finish(p, r) ==
    /\ pc' = [pc EXCEPT ![p] = "done"]
    /\ res' = [res EXCEPT ![p] = r]

\* mutant: execute returns the entity it built instead of the one save returned
CreateTodoExecute_returnsUnsaved(p) ==
    /\ pc[p] = "called"
    /\ cmd[p].op = "create"
    /\ LET r == Todo_create(cmd[p].title, cmd[p].description, now) IN
       IF r.err # NoError
       THEN /\ Finish(p, Threw(r.err))
            /\ UNCHANGED <<storeVars, writes>>
       ELSE /\ nextId <= MaxId
            /\ LET saved == Todo_reconstruct(nextId, r.todo.title, r.todo.description,
                                             r.todo.status, now, now).todo
               IN /\ rows' = [rows EXCEPT ![nextId] = saved]
                  /\ stored' = stored \cup {nextId}
                  /\ nextId' = nextId + 1
                  /\ writes' = [writes EXCEPT ![p] = @ + 1]
                  /\ Finish(p, ReturnedTodo(r.todo))
    /\ UNCHANGED <<now, voVars, equalsVars, entityVars, repoKind, cmd, ent, snap, stale,
                   lastWriter>>

\* CreateTodoUseCase.execute: Todo.create, then repository save
\* mutant: save hands out the smallest id no stored todo holds
CreateTodoExecute_reusesFreedId(p) ==
    /\ pc[p] = "called"
    /\ cmd[p].op = "create"
    /\ LET r == Todo_create(cmd[p].title, cmd[p].description, now) IN
       IF r.err # NoError
       THEN /\ Finish(p, Threw(r.err))
            /\ UNCHANGED <<storeVars, writes>>
       ELSE /\ nextId <= MaxId
            /\ LET free == CHOOSE i \in 1..nextId :
                               /\ i \notin stored
                               /\ \A j \in 1..nextId : j \notin stored => i <= j
                   saved == Todo_reconstruct(free, r.todo.title, r.todo.description,
                                             r.todo.status, now, now).todo
               IN /\ rows' = [rows EXCEPT ![free] = saved]
                  /\ stored' = stored \cup {free}
                  /\ nextId' = IF free = nextId THEN nextId + 1 ELSE nextId
                  /\ writes' = [writes EXCEPT ![p] = @ + 1]
                  /\ Finish(p, ReturnedTodo(saved))
    /\ UNCHANGED <<now, voVars, equalsVars, entityVars, repoKind, cmd, ent, snap, stale, lastWriter>>

CreateTodoExecute(p) ==
    /\ pc[p] = "called"
    /\ cmd[p].op = "create"
    /\ LET r == Todo_create(cmd[p].title, cmd[p].description, now) IN
       IF r.err # NoError
       THEN /\ Finish(p, Threw(r.err))
            /\ UNCHANGED <<storeVars, writes>>
       ELSE /\ nextId <= MaxId
            /\ LET saved ==
                   IF repoKind = "memory"
                   THEN Todo_reconstruct(nextId, r.todo.title, r.todo.description,
                                         r.todo.status, r.todo.createdAt,
                                         r.todo.updatedAt).todo
                   ELSE Todo_reconstruct(nextId, r.todo.title, r.todo.description,
                                         r.todo.status, now, now).todo
               IN /\ rows' = [rows EXCEPT ![nextId] = saved]
                  /\ stored' = stored \cup {nextId}
                  /\ nextId' = nextId + 1
                  /\ writes' = [writes EXCEPT ![p] = @ + 1]
                  /\ Finish(p, ReturnedTodo(saved))
    /\ UNCHANGED <<now, voVars, equalsVars, entityVars, repoKind, cmd, ent, snap, stale, lastWriter>>

\* mutant: an absent id is answered with nothing instead of an error
GetTodoByIdExecute_nullOnMissing(p) ==
    /\ pc[p] = "called"
    /\ cmd[p].op = "getById"
    /\ IF cmd[p].id \in stored
       THEN Finish(p, ReturnedTodo(rows[cmd[p].id]))
       ELSE Finish(p, ReturnedVoid)
    /\ UNCHANGED <<now, voVars, equalsVars, entityVars, repoKind, storeVars, cmd, ent,
                   writes, snap, stale, lastWriter>>

\* GetTodoByIdUseCase.execute
GetTodoByIdExecute(p) ==
    /\ pc[p] = "called"
    /\ cmd[p].op = "getById"
    /\ IF cmd[p].id \in stored
       THEN Finish(p, ReturnedTodo(rows[cmd[p].id]))
       ELSE Finish(p, Threw(TodoNotFoundError(cmd[p].id)))
    /\ UNCHANGED <<now, voVars, equalsVars, entityVars, repoKind, storeVars, cmd, ent, writes, snap,
                   stale, lastWriter>>

\* mutant: an absent id ends the call without an error
FindById_silent(p) ==
    /\ pc[p] = "called"
    /\ cmd[p].op \in {"update", "toggle", "delete"}
    /\ IF cmd[p].id \in stored
       THEN /\ pc' = [pc EXCEPT ![p] = "loaded"]
            /\ ent' = [ent EXCEPT ![p] = IF repoKind = "memory" THEN NoTodo
                                         ELSE rows[cmd[p].id]]
            /\ snap' = [snap EXCEPT ![p] = rows[cmd[p].id]]
            /\ UNCHANGED res
       ELSE /\ Finish(p, ReturnedVoid)
            /\ UNCHANGED <<ent, snap>>
    /\ UNCHANGED <<now, voVars, equalsVars, entityVars, repoKind, storeVars, cmd, writes, stale,
                   lastWriter>>

\* the findById of UpdateTodo, ToggleTodo and DeleteTodo, and their not-found check
FindById(p) ==
    /\ pc[p] = "called"
    /\ cmd[p].op \in {"update", "toggle", "delete"}
    /\ IF cmd[p].id \in stored
       THEN /\ pc' = [pc EXCEPT ![p] = "loaded"]
            /\ ent' = [ent EXCEPT ![p] = IF repoKind = "memory" THEN NoTodo
                                         ELSE rows[cmd[p].id]]
            /\ snap' = [snap EXCEPT ![p] = rows[cmd[p].id]]
            /\ UNCHANGED res
       ELSE /\ Finish(p, Threw(TodoNotFoundError(cmd[p].id)))
            /\ UNCHANGED <<ent, snap>>
    /\ UNCHANGED <<now, voVars, equalsVars, entityVars, repoKind, storeVars, cmd, writes, stale,
                   lastWriter>>

\* the entity behaviour of a use case leaves the caller's Todo as t
Mutate(p, t) ==
    IF repoKind = "memory"
    THEN /\ rows' = [rows EXCEPT ![cmd[p].id] = t]
         /\ UNCHANGED ent
    ELSE /\ ent' = [ent EXCEPT ![p] = t]
         /\ UNCHANGED rows

\* mutant: repository update is called with the Todo even when update() threw
UpdateTodoApply_persistAnyway(p) ==
    /\ pc[p] = "loaded"
    /\ cmd[p].op = "update"
    /\ LET r == Todo_update(Loaded(p), cmd[p].params, now) IN
       /\ Mutate(p, r.todo)
       /\ IF r.err # NoError
          THEN /\ Finish(p, Threw(r.err))
               /\ writes' = [writes EXCEPT ![p] = @ + 1]
          ELSE /\ pc' = [pc EXCEPT ![p] = "applied"]
               /\ UNCHANGED <<res, writes>>
    /\ UNCHANGED <<now, voVars, equalsVars, entityVars, repoKind, stored, nextId, cmd, snap,
                   stale, lastWriter>>

\* UpdateTodoUseCase.execute: existingTodo.update(...)
UpdateTodoApply(p) ==
    /\ pc[p] = "loaded"
    /\ cmd[p].op = "update"
    /\ LET r == Todo_update(Loaded(p), cmd[p].params, now) IN
       /\ Mutate(p, r.todo)
       /\ IF r.err # NoError
          THEN Finish(p, Threw(r.err))
          ELSE /\ pc' = [pc EXCEPT ![p] = "applied"]
               /\ UNCHANGED res
    /\ UNCHANGED <<now, voVars, equalsVars, entityVars, repoKind, stored, nextId, cmd, writes, snap,
                   stale, lastWriter>>

\* mutant: the use case completes the todo instead of toggling it
ToggleTodoApply_completeOnly(p) ==
    /\ pc[p] = "loaded"
    /\ cmd[p].op = "toggle"
    /\ LET r == Todo_complete(Loaded(p), now) IN
       /\ Mutate(p, r.todo)
       /\ IF r.err # NoError
          THEN Finish(p, Threw(r.err))
          ELSE /\ pc' = [pc EXCEPT ![p] = "applied"]
               /\ UNCHANGED res
    /\ UNCHANGED <<now, voVars, equalsVars, entityVars, repoKind, stored, nextId, cmd,
                   writes, snap, stale, lastWriter>>

\* ToggleTodoUseCase.execute: todo.toggleComplete()
ToggleTodoApply(p) ==
    /\ pc[p] = "loaded"
    /\ cmd[p].op = "toggle"
    /\ LET r == Todo_toggleComplete(Loaded(p), now) IN
       /\ Mutate(p, r.todo)
       /\ IF r.err # NoError
          THEN Finish(p, Threw(r.err))
          ELSE /\ pc' = [pc EXCEPT ![p] = "applied"]
               /\ UNCHANGED res
    /\ UNCHANGED <<now, voVars, equalsVars, entityVars, repoKind, stored, nextId, cmd, writes, snap,
                   stale, lastWriter>>

\* mutant: the updated todo comes back without its id
RepositoryUpdate_dropsId(p) ==
    /\ pc[p] = "applied"
    /\ writes' = [writes EXCEPT ![p] = @ + 1]
    /\ LET id == cmd[p].id
           mine == Loaded(p)
           row == [rows[id] EXCEPT !.title = mine.title,
                                   !.description = mine.description,
                                   !.status = mine.status,
                                   !.updatedAt = now]
       IN /\ rows' = [rows EXCEPT ![id] = row]
          /\ Finish(p, ReturnedTodo([row EXCEPT !.id = NullId]))
    /\ stale' = [q \in Procs |->
                    IF q # p /\ pc[q] \in {"loaded", "applied"} /\ cmd[q].id = cmd[p].id
                    THEN TRUE ELSE stale[q]]
    /\ lastWriter' = p
    /\ UNCHANGED <<now, voVars, equalsVars, entityVars, repoKind, stored, nextId, cmd,
                   ent, snap>>

\* mutant: a repository update that writes nothing
RepositoryUpdate_noWrite(p) ==
    /\ pc[p] = "applied"
    /\ writes' = [writes EXCEPT ![p] = @ + 1]
    /\ Finish(p, ReturnedTodo(Loaded(p)))
    /\ lastWriter' = p
    /\ UNCHANGED <<now, voVars, equalsVars, entityVars, repoKind, storeVars, cmd, ent, snap, stale>>

\* mutant: a repository update that writes only the fields the caller changed
RepositoryUpdate_changedOnly(p) ==
    /\ pc[p] = "applied"
    /\ writes' = [writes EXCEPT ![p] = @ + 1]
    /\ LET id == cmd[p].id
           mine == Loaded(p)
           row == [rows[id] EXCEPT
                       !.title = IF mine.title # snap[p].title THEN mine.title ELSE @,
                       !.description = IF mine.description # snap[p].description
                                       THEN mine.description ELSE @,
                       !.status = IF mine.status # snap[p].status THEN mine.status ELSE @]
       IN /\ rows' = [rows EXCEPT ![id] = row]
          /\ Finish(p, ReturnedTodo(row))
    /\ stale' = [q \in Procs |->
                    IF q # p /\ pc[q] \in {"loaded", "applied"} /\ cmd[q].id = cmd[p].id
                    THEN TRUE ELSE stale[q]]
    /\ lastWriter' = p
    /\ UNCHANGED <<now, voVars, equalsVars, entityVars, repoKind, stored, nextId, cmd, ent, snap>>

\* repository update, as UpdateTodo and ToggleTodo call it with their Todo
\* mutant: update writes the todo back when its row is gone (upsert)
RepositoryUpdate_upsert(p) ==
    /\ pc[p] = "applied"
    /\ writes' = [writes EXCEPT ![p] = @ + 1]
    /\ LET id == cmd[p].id IN
       IF repoKind = "memory"
       THEN /\ rows' = [rows EXCEPT ![id] = Loaded(p)]
            /\ stored' = stored \cup {id}
            /\ Finish(p, ReturnedTodo(Loaded(p)))
       ELSE LET row == [ent[p] EXCEPT !.updatedAt = now]
            IN /\ rows' = [rows EXCEPT ![id] = row]
               /\ stored' = stored \cup {id}
               /\ Finish(p, ReturnedTodo(row))
    /\ stale' = [q \in Procs |->
                    IF q # p /\ pc[q] \in {"loaded", "applied"} /\ cmd[q].id = cmd[p].id
                    THEN TRUE ELSE stale[q]]
    /\ lastWriter' = p
    /\ UNCHANGED <<now, voVars, equalsVars, entityVars, repoKind, nextId, cmd, ent, snap>>

RepositoryUpdate(p) ==
    /\ pc[p] = "applied"
    /\ writes' = [writes EXCEPT ![p] = @ + 1]
    /\ LET id == cmd[p].id IN
       IF repoKind = "memory"
       THEN \* todos[index] = todo when the id is found; the caller's Todo is returned
            /\ rows' = IF id \in stored THEN [rows EXCEPT ![id] = Loaded(p)] ELSE rows
            /\ Finish(p, ReturnedTodo(Loaded(p)))
       ELSE IF id \in stored
       THEN \* the row takes title, description and status of the caller's Todo
            LET row == [rows[id] EXCEPT !.title = ent[p].title,
                                        !.description = ent[p].description,
                                        !.status = ent[p].status,
                                        !.updatedAt = now]
            IN /\ rows' = [rows EXCEPT ![id] = row]
               /\ Finish(p, ReturnedTodo(row))
       ELSE /\ Finish(p, Threw(PrismaRecordNotFound))
            /\ UNCHANGED rows
    /\ stale' = [q \in Procs |->
                    IF q # p /\ pc[q] \in {"loaded", "applied"} /\ cmd[q].id = cmd[p].id
                    THEN TRUE ELSE stale[q]]
    /\ lastWriter' = p
    /\ UNCHANGED <<now, voVars, equalsVars, entityVars, repoKind, stored, nextId, cmd, ent, snap>>

\* mutant: a delete that reports success and removes nothing
RepositoryDelete_keepsRow(p) ==
    /\ pc[p] = "loaded"
    /\ cmd[p].op = "delete"
    /\ writes' = [writes EXCEPT ![p] = @ + 1]
    /\ Finish(p, ReturnedVoid)
    /\ UNCHANGED <<now, voVars, equalsVars, entityVars, repoKind, storeVars, cmd, ent,
                   snap, stale, lastWriter>>

\* DeleteTodoUseCase.execute: repository delete after the existence check
\* mutant: delete without the id condition empties the store
RepositoryDelete_deletesAll(p) ==
    /\ pc[p] = "loaded"
    /\ cmd[p].op = "delete"
    /\ writes' = [writes EXCEPT ![p] = @ + 1]
    /\ IF repoKind = "memory"
       THEN /\ stored' = {}
            /\ UNCHANGED rows
            /\ Finish(p, ReturnedVoid)
       ELSE /\ stored' = {}
            /\ rows' = [i \in DOMAIN rows |-> NoTodo]
            /\ Finish(p, ReturnedVoid)
    /\ UNCHANGED <<now, voVars, equalsVars, entityVars, repoKind, nextId, cmd, ent, snap, stale,
                   lastWriter>>

RepositoryDelete(p) ==
    /\ pc[p] = "loaded"
    /\ cmd[p].op = "delete"
    /\ writes' = [writes EXCEPT ![p] = @ + 1]
    /\ LET id == cmd[p].id IN
       IF repoKind = "memory"
       THEN /\ stored' = stored \ {id}
            /\ UNCHANGED rows
            /\ Finish(p, ReturnedVoid)
       ELSE IF id \in stored
       THEN /\ stored' = stored \ {id}
            /\ rows' = [rows EXCEPT ![id] = NoTodo]
            /\ Finish(p, ReturnedVoid)
       ELSE /\ Finish(p, Threw(PrismaRecordNotFound))
            /\ UNCHANGED <<rows, stored>>
    /\ UNCHANGED <<now, voVars, equalsVars, entityVars, repoKind, nextId, cmd, ent, snap, stale,
                   lastWriter>>

(***************************************************************************)
(* Concurrent callers: every caller has one UpdateTodo or ToggleTodo call  *)
(* in flight on the same stored todo.                                      *)
(***************************************************************************)
StrC == MkStr(0, "c", 1, 0)

RaceCommands ==
    [op : {"update"}, id : {1},
     params : [title : {Undefined, StrB, StrC},
               description : {Undefined, StrD},
               status : {UndefinedStatus, "IN_PROGRESS"}]]
    \cup [op : {"toggle"}, id : {1}]

RaceTodo == Todo_reconstruct(1, StrA, Null, "PENDING", 0, 0).todo

RaceInit ==
    /\ rows = [i \in Ids |-> IF i = 1 THEN RaceTodo ELSE NoTodo]
    /\ stored = {1}
    /\ nextId = 2
    /\ pc = [p \in Procs |-> "called"]
    /\ cmd \in [Procs -> RaceCommands]
    /\ ent = [p \in Procs |-> NoTodo]
    /\ res = [p \in Procs |-> NoRes]
    /\ writes = [p \in Procs |-> 0]
    /\ snap = [p \in Procs |-> NoTodo]
    /\ stale = [p \in Procs |-> FALSE]
    /\ lastWriter = 0

(***************************************************************************)
(* Specifications.                                                         *)
(***************************************************************************)
DomainInit ==
    /\ now = 0
    /\ VOInit
    /\ EntityInit
    /\ EqualsIdle

Init ==
    /\ DomainInit
    /\ repoKind = "prisma"
    /\ UseCaseInit

NextValueObjects ==
    \/ StatusCreate
    \/ StatusFromString
    \/ StatusCanTransitionTo
    \/ StatusTransitionTo
    \/ StatusGetAvailableTransitions
    \/ TitleCreate
    \/ TitleReconstruct

SpecValueObjects == Init /\ [][NextValueObjects]_vars

NextEntity ==
    \/ Tick
    \/ Create
    \/ Reconstruct
    \/ Complete
    \/ Uncomplete
    \/ ToggleComplete
    \/ ChangeStatus
    \/ UpdateTitle
    \/ UpdateDescription
    \/ Update

SpecEntity == Init /\ [][NextEntity]_vars

\* Todo.equals called on pairs of instances
InitEquals ==
    /\ now = 0
    /\ VOInit
    /\ EntityInit
    /\ EqualsInit
    /\ repoKind = "prisma"
    /\ UseCaseInit

NextEquals == Equals

SpecEquals == InitEquals /\ [][NextEquals]_vars

\* use cases called one at a time against either repository
InitUseCases ==
    /\ DomainInit
    /\ repoKind \in {"prisma", "memory"}
    /\ UseCaseInit

Step(p) ==
    \/ CreateTodoExecute(p)
    \/ GetTodoByIdExecute(p)
    \/ FindById(p)
    \/ UpdateTodoApply(p)
    \/ ToggleTodoApply(p)
    \/ RepositoryUpdate(p)
    \/ RepositoryDelete(p)

NextUseCases ==
    \/ Call
    \/ \E p \in Procs : Step(p)
    \/ \E p \in Procs : Settle(p)

SpecUseCases == InitUseCases /\ [][NextUseCases]_vars

(***************************************************************************)
(* GetTodos: repository findAll(pagination, filter).  An options object    *)
(* is Undefined, the empty object, or a record holding the fields given.   *)
(***************************************************************************)
EmptyObject == [kind |-> "object"]
Has(o, field) == field \in DOMAIN o

StrUpperA == MkStr(0, "A", 1, 0)
StrAA == MkStr(0, "a", 2, 0)

\* String.prototype.toLowerCase on the letters used here
ToLowerCase(s) == [s EXCEPT !.ch = IF @ = "A" THEN "a" ELSE @]

\* String.prototype.includes
StrIncludes(s, sub) ==
    IF StrLength(sub) = 0 THEN TRUE
    ELSE IF sub.n = 0
    THEN s.lead >= sub.lead \/ s.trail >= sub.lead
    ELSE /\ s.ch = sub.ch
         /\ sub.n <= s.n
         /\ sub.lead <= s.lead
         /\ sub.trail <= s.trail
         /\ (sub.lead > 0 \/ sub.trail > 0) =>
                (s.n = sub.n \/ sub.lead = 0 \/ sub.trail = 0)

\* a filter field counts when it is present and truthy
FilterHasStatus(filter) == Has(filter, "status")
FilterHasTitleSearch(filter) ==
    /\ Has(filter, "titleSearch")
    /\ StrLength(filter.titleSearch) > 0

\* InMemoryTodoRepository.findAll filters; PrismaTodoRepository.buildWhereClause
FilterMatches(kind, t, filter) ==
    /\ FilterHasStatus(filter) => t.status = filter.status
    /\ FilterHasTitleSearch(filter) =>
           IF kind = "memory"
           THEN StrIncludes(t.title, filter.titleSearch)
           ELSE StrIncludes(ToLowerCase(t.title), ToLowerCase(filter.titleSearch))

Matching(kind, filter) == {i \in stored : FilterMatches(kind, rows[i], filter)}

\* the orders in which the matching todos can come back: the in-memory
\* array keeps insertion order; Prisma sorts by createdAt descending and
\* leaves the order of equal timestamps to the database
FindAllOrders(kind, ids) ==
    {ord \in [1..Cardinality(ids) -> ids] :
        /\ \A i, j \in 1..Cardinality(ids) : i # j => ord[i] # ord[j]
        /\ \A i, j \in 1..Cardinality(ids) :
               i < j => IF kind = "memory"
                        THEN ord[i] < ord[j]
                        ELSE rows[ord[i]].createdAt >= rows[ord[j]].createdAt}

\* Math.ceil(total / limit) for limit >= 1
CeilDiv(total, limit) == (total + limit - 1) \div limit

\* Array.prototype.slice(offset, offset + limit); findMany({skip, take})
Slice(seq, offset, limit) ==
    SubSeq(seq, offset + 1, IF offset + limit < Len(seq) THEN offset + limit ELSE Len(seq))

\* mutant: pages counted from zero
FindAll_zeroBasedPage(ordered, pagination) ==
    LET page == IF Has(pagination, "page") THEN pagination.page ELSE 1
        limit == IF Has(pagination, "limit") THEN pagination.limit ELSE 10
        offset == page * limit
        total == Len(ordered)
    IN [kind |-> "page",
        data |-> Slice(ordered, offset, limit),
        total |-> total,
        page |-> page,
        limit |-> limit,
        totalPages |-> CeilDiv(total, limit)]

\* mutant: totalPages rounded down
FindAll_floorPages(ordered, pagination) ==
    LET page == IF Has(pagination, "page") THEN pagination.page ELSE 1
        limit == IF Has(pagination, "limit") THEN pagination.limit ELSE 10
        offset == (page - 1) * limit
        total == Len(ordered)
    IN [kind |-> "page",
        data |-> Slice(ordered, offset, limit),
        total |-> total,
        page |-> page,
        limit |-> limit,
        totalPages |-> total \div limit]

\* findAll on the ordered list of matching todos
FindAll(ordered, pagination) ==
    LET page == IF Has(pagination, "page") THEN pagination.page ELSE 1
        limit == IF Has(pagination, "limit") THEN pagination.limit ELSE 10
        offset == (page - 1) * limit
        total == Len(ordered)
    IN [kind |-> "page",
        data |-> Slice(ordered, offset, limit),
        total |-> total,
        page |-> page,
        limit |-> limit,
        totalPages |-> CeilDiv(total, limit)]

PageNumbers == 1..3
LimitNumbers == 1..2

PaginationInputs ==
    {Undefined, EmptyObject}
        \cup [page : PageNumbers]
        \cup [limit : LimitNumbers]
        \cup [page : PageNumbers, limit : LimitNumbers]

FilterStatuses == {"PENDING", "COMPLETED"}
TitleSearches == {EmptyStr, StrA}

FilterInputs ==
    {Undefined, EmptyObject}
        \cup [status : FilterStatuses]
        \cup [titleSearch : TitleSearches]
        \cup [status : FilterStatuses, titleSearch : TitleSearches]

GetTodosQueries == [op : {"getTodos"}, pagination : PaginationInputs, filter : FilterInputs]

GetTodosCall ==
    /\ pc[1] = "idle"
    /\ \E q \in GetTodosQueries :
           /\ pc' = [pc EXCEPT ![1] = "called"]
           /\ cmd' = [cmd EXCEPT ![1] = q]
    /\ UNCHANGED <<now, voVars, equalsVars, entityVars, repoKind, storeVars, ent, res, writes, snap,
                   stale, lastWriter>>

\* GetTodosUseCase.execute
GetTodosExecute(p) ==
    /\ pc[p] = "called"
    /\ cmd[p].op = "getTodos"
    /\ \E ord \in FindAllOrders(repoKind, Matching(repoKind, cmd[p].filter)) :
           Finish(p, FindAll([k \in DOMAIN ord |-> rows[ord[k]]], cmd[p].pagination))
    /\ UNCHANGED <<now, voVars, equalsVars, entityVars, repoKind, storeVars, cmd, ent, writes, snap,
                   stale, lastWriter>>

\* the stores findAll is run against: ids 1..MaxTodos have been saved in
\* this order, some were deleted again
FindAllTitles == {StrUpperA, StrAA}

SeedTodo(i, title, status, at) == Todo_reconstruct(i, title, Null, status, at, at).todo

SeedTodos(i) ==
    {SeedTodo(i, title, status, at) :
        title \in FindAllTitles, status \in FilterStatuses, at \in 0..MaxClock}

FindAllInit ==
    /\ stored \in SUBSET (1..MaxTodos)
    /\ nextId = MaxTodos + 1
    /\ rows \in [1..MaxTodos -> UNION {SeedTodos(i) : i \in 1..MaxTodos} \cup {NoTodo}]
    /\ \A i \in 1..MaxTodos :
           IF i \in stored THEN rows[i] \in SeedTodos(i) ELSE rows[i] = NoTodo
    /\ \A i, j \in stored : i < j => rows[i].createdAt <= rows[j].createdAt
    /\ pc = [p \in Procs |-> "idle"]
    /\ cmd = [p \in Procs |-> NoCmd]
    /\ ent = [p \in Procs |-> NoTodo]
    /\ res = [p \in Procs |-> NoRes]
    /\ writes = [p \in Procs |-> 0]
    /\ snap = [p \in Procs |-> NoTodo]
    /\ stale = [p \in Procs |-> FALSE]
    /\ lastWriter = 0

InitFindAll ==
    /\ now = MaxClock
    /\ VOInit
    /\ EntityInit
    /\ EqualsIdle
    /\ repoKind \in {"prisma", "memory"}
    /\ FindAllInit

NextFindAll ==
    \/ GetTodosCall
    \/ \E p \in Procs : GetTodosExecute(p)
    \/ \E p \in Procs : Settle(p)

SpecFindAll == InitFindAll /\ [][NextFindAll]_vars

(***************************************************************************)
(* Concurrent callers around a delete: every caller issues calls on todo 1 *)
(* (delete, update, toggle, read) or creates a new todo, and the calls     *)
(* interleave step by step.                                                *)
(***************************************************************************)
DeleteRaceCommands ==
    [op : {"delete", "toggle", "getById"}, id : {1}]
        \cup [op : {"update"}, id : {1},
              params : [title : {StrB}, description : {Undefined},
                        status : {UndefinedStatus}]]
        \cup [op : {"create"}, title : {StrA}, description : {Undefined}]

CallConcurrent(p) ==
    /\ pc[p] = "idle"
    /\ \E c \in DeleteRaceCommands :
           /\ c.op = "create" => nextId <= MaxId
           /\ pc' = [pc EXCEPT ![p] = "called"]
           /\ cmd' = [cmd EXCEPT ![p] = c]
    /\ UNCHANGED <<now, voVars, equalsVars, entityVars, repoKind, storeVars, ent, res, writes, snap,
                   stale, lastWriter>>

DeleteRaceInit ==
    /\ rows = [i \in Ids |-> IF i = 1 THEN RaceTodo ELSE NoTodo]
    /\ stored = {1}
    /\ nextId = 2
    /\ pc = [p \in Procs |-> "idle"]
    /\ cmd = [p \in Procs |-> NoCmd]
    /\ ent = [p \in Procs |-> NoTodo]
    /\ res = [p \in Procs |-> NoRes]
    /\ writes = [p \in Procs |-> 0]
    /\ snap = [p \in Procs |-> NoTodo]
    /\ stale = [p \in Procs |-> FALSE]
    /\ lastWriter = 0

InitDeleteRace ==
    /\ DomainInit
    /\ repoKind \in {"prisma", "memory"}
    /\ DeleteRaceInit

NextDeleteRace ==
    \E p \in Procs :
        \/ CallConcurrent(p)
        \/ CreateTodoExecute(p)
        \/ GetTodoByIdExecute(p)
        \/ FindById(p)
        \/ UpdateTodoApply(p)
        \/ ToggleTodoApply(p)
        \/ RepositoryUpdate(p)
        \/ RepositoryDelete(p)
        \/ Settle(p)

SpecDeleteRace == InitDeleteRace /\ [][NextDeleteRace]_vars

\* concurrent UpdateTodo / ToggleTodo calls on one todo
InitRace ==
    /\ DomainInit
    /\ repoKind \in {"prisma", "memory"}
    /\ RaceInit

NextRace ==
    \E p \in Procs :
        \/ FindById(p)
        \/ UpdateTodoApply(p)
        \/ ToggleTodoApply(p)
        \/ RepositoryUpdate(p)

SpecRace == InitRace /\ [][NextRace]_vars

(***************************************************************************)
(* What the claims are stated against: the transition table as the         *)
(* specification prints it, and the title and description rules.           *)
(***************************************************************************)
TableAllows(a, b) ==
    <<a, b>> \in {<<"PENDING", "IN_PROGRESS">>, <<"PENDING", "COMPLETED">>,
                  <<"IN_PROGRESS", "COMPLETED">>, <<"IN_PROGRESS", "PENDING">>,
                  <<"COMPLETED", "PENDING">>}

ValidTitle(raw) == raw.kind = "str" /\ raw.n >= 1 /\ raw.n <= 100

TrimmedOf(raw) == [raw EXCEPT !.lead = 0, !.trail = 0]

NormalizedDescription(d) ==
    IF d.kind # "str" THEN Null
    ELSE IF d.n = 0 THEN Null
    ELSE TrimmedOf(d)

(***************************************************************************)
(* C1.  TodoStatus transition table: a.canTransitionTo(b) is true, and     *)
(* a.transitionTo(b) returns a status holding b, exactly for the five      *)
(* pairs of the table; for every other pair, every self pair included,     *)
(* canTransitionTo is false and transitionTo fails with                    *)
(* InvalidStatusTransition.                                                *)
(***************************************************************************)
C1_TransitionTable ==
    /\ svLast.op = "canTransitionTo" =>
           (svLast.ret <=> TableAllows(svLast.recv, svLast.arg))
    /\ svLast.op = "transitionTo" =>
           IF TableAllows(svLast.recv, svLast.arg)
           THEN /\ svLast.ret.ok
                /\ svLast.ret.value = svLast.arg
                /\ svLast.ret.err = NoError
           ELSE /\ ~svLast.ret.ok
                /\ svLast.ret.err.kind = "INVALID_STATUS_TRANSITION"
                /\ svLast.ret.err.currentStatus = svLast.recv
                /\ svLast.ret.err.targetStatus = svLast.arg

C1_Witness ==
    /\ svLast.op = "transitionTo"
    /\ svLast.recv = "COMPLETED"
    /\ svLast.arg = "IN_PROGRESS"
    /\ ~svLast.ret.ok

(***************************************************************************)
(* C2.  Todo.changeStatus(target) with a target that differs from the      *)
(* current status: when the table does not allow the pair (only            *)
(* COMPLETED -> IN_PROGRESS) it fails with InvalidStatusTransition         *)
(* carrying the current status and the target and leaves status, title,    *)
(* description and updatedAt unchanged; for every allowed pair it sets     *)
(* the status to the target and stamps updatedAt.                          *)
(***************************************************************************)
C2_ChangeStatus ==
    (last.op = "changeStatus" /\ last.arg # last.pre.status) =>
        /\ ~TableAllows(last.pre.status, last.arg) <=>
               (last.pre.status = "COMPLETED" /\ last.arg = "IN_PROGRESS")
        /\ IF TableAllows(last.pre.status, last.arg)
           THEN /\ last.err = NoError
                /\ todo.status = last.arg
                /\ todo.updatedAt = last.at
           ELSE /\ last.err.kind = "INVALID_STATUS_TRANSITION"
                /\ last.err.currentStatus = last.pre.status
                /\ last.err.targetStatus = last.arg
                /\ todo.status = last.pre.status
                /\ todo.title = last.pre.title
                /\ todo.description = last.pre.description
                /\ todo.updatedAt = last.pre.updatedAt

C2_Witness ==
    /\ last.op = "changeStatus"
    /\ last.pre.status = "COMPLETED"
    /\ last.arg = "IN_PROGRESS"
    /\ last.err.kind = "INVALID_STATUS_TRANSITION"
    /\ last.pre.updatedAt < last.at

(***************************************************************************)
(* C3.  Todo.toggleComplete() maps COMPLETED to PENDING and each of        *)
(* PENDING and IN_PROGRESS to COMPLETED, never fails and stamps            *)
(* updatedAt; starting from PENDING one toggle gives COMPLETED and a       *)
(* second toggle gives PENDING again.                                      *)
(***************************************************************************)
C3_ToggleComplete ==
    last.op = "toggleComplete" =>
        /\ last.err = NoError
        /\ todo.status = IF last.pre.status = "COMPLETED" THEN "PENDING" ELSE "COMPLETED"
        /\ todo.updatedAt = last.at
        /\ (chain.op = "toggleComplete" /\ chain.from = "PENDING" /\ chain.len = 1)
               => todo.status = "COMPLETED"
        /\ (chain.op = "toggleComplete" /\ chain.from = "PENDING" /\ chain.len = 2
            /\ last.pre.status = "COMPLETED")
               => todo.status = "PENDING"

C3_Witness ==
    /\ last.op = "toggleComplete"
    /\ chain.op = "toggleComplete"
    /\ chain.from = "PENDING"
    /\ chain.len = 2
    /\ last.pre.status = "COMPLETED"
    /\ todo.status = "PENDING"
    /\ last.pre.updatedAt < todo.updatedAt

(***************************************************************************)
(* C4.  No partial persistence: a CreateTodo or UpdateTodo call that ends  *)
(* with InvalidTitle or InvalidStatusTransition has invoked no repository  *)
(* save or update.                                                         *)
(***************************************************************************)
ValidationError(r) ==
    /\ r.kind = "threw"
    /\ r.err.kind \in {"INVALID_TODO_TITLE", "INVALID_STATUS_TRANSITION"}

C4_NoWriteOnValidationFailure ==
    \A p \in Procs :
        (/\ pc[p] = "done"
         /\ cmd[p].op \in {"create", "update"}
         /\ ValidationError(res[p]))
        => writes[p] = 0

C4_Witness ==
    /\ pc[1] = "done"
    /\ cmd[1].op = "update"
    /\ cmd[1].params.title = StrB
    /\ res[1].kind = "threw"
    /\ res[1].err.kind = "INVALID_STATUS_TRANSITION"
    /\ writes[1] = 0

(***************************************************************************)
(* C5.  After an UpdateTodo call on an existing id has failed with         *)
(* InvalidTitle or InvalidStatusTransition, the stored todo has the title, *)
(* description and status it had before the call.                          *)
(***************************************************************************)
C5_FailedUpdateLeavesStored ==
    \A p \in Procs :
        (/\ pc[p] = "done"
         /\ cmd[p].op = "update"
         /\ cmd[p].id \in stored
         /\ ValidationError(res[p]))
        => Fields(rows[cmd[p].id]) = Fields(snap[p])

(***************************************************************************)
(* C6.  Todo.update(partial) applies the provided fields in the order      *)
(* title, description, status with no rollback: when a field fails no      *)
(* later field is applied, and the fields applied before the failing one   *)
(* stay mutated.                                                           *)
(***************************************************************************)
C6_UpdateNoRollback ==
    last.op = "update" =>
        LET p == last.arg
            pre == last.pre
            titleGiven == p.title # Undefined
            descGiven == p.description # Undefined
            statusGiven == p.status # UndefinedStatus
            titleAfter == IF titleGiven THEN TrimmedOf(p.title) ELSE pre.title
            descAfter == IF descGiven THEN NormalizedDescription(p.description)
                         ELSE pre.description
        IN  IF titleGiven /\ ~ValidTitle(p.title)
            THEN /\ last.err.kind = "INVALID_TODO_TITLE"
                 /\ todo.title = pre.title
                 /\ todo.description = pre.description
                 /\ todo.status = pre.status
            ELSE IF statusGiven /\ p.status # pre.status
                    /\ ~TableAllows(pre.status, p.status)
            THEN /\ last.err.kind = "INVALID_STATUS_TRANSITION"
                 /\ todo.title = titleAfter
                 /\ todo.description = descAfter
                 /\ todo.status = pre.status
            ELSE /\ last.err = NoError
                 /\ todo.title = titleAfter
                 /\ todo.description = descAfter
                 /\ todo.status = IF statusGiven THEN p.status ELSE pre.status

C6_Witness ==
    /\ last.op = "update"
    /\ last.err.kind = "INVALID_STATUS_TRANSITION"
    /\ last.arg.title # Undefined
    /\ todo.title # last.pre.title
    /\ todo.title = TrimmedOf(last.arg.title)
    /\ todo.status = last.pre.status

(***************************************************************************)
(* C7.  UpdateTodo, DeleteTodo and ToggleTodo on an id that findById       *)
(* reports absent fail with TodoNotFound carrying that id, invoke no       *)
(* repository update or delete, and leave the store as it was.             *)
(***************************************************************************)
C7_AbsentIdStep(p) ==
    (/\ pc[p] = "called"
     /\ cmd[p].op \in {"update", "toggle", "delete"}
     /\ cmd[p].id \notin stored
     /\ pc'[p] # "called")
    => /\ pc'[p] = "done"
       /\ res'[p] = Threw(TodoNotFoundError(cmd[p].id))
       /\ writes'[p] = 0
       /\ storeVars' = storeVars

C7_NotFound == [][\A p \in Procs : C7_AbsentIdStep(p)]_vars

C7_Witness ==
    /\ pc[1] = "done"
    /\ cmd[1].op = "delete"
    /\ cmd[1].id = 2
    /\ stored = {1}
    /\ res[1] = Threw(TodoNotFoundError(2))
    /\ writes[1] = 0

(***************************************************************************)
(* C8.  No optimistic concurrency with the Prisma repository: every        *)
(* UpdateTodo or ToggleTodo call that reaches repository update succeeds,  *)
(* and the stored title, description and status after the last write are   *)
(* those the last writer computed from the todo its own findById saw,      *)
(* whatever was written in between.                                        *)
(***************************************************************************)
ApplyCommand(c, t) ==
    IF c.op = "toggle" THEN Todo_toggleComplete(t, now).todo
    ELSE Todo_update(t, c.params, now).todo

C8_LastWriteWins ==
    repoKind = "prisma" =>
        \A p \in Procs :
            (pc[p] = "done" /\ writes[p] = 1) =>
                /\ res[p].kind = "returned"
                /\ lastWriter = p =>
                       Fields(rows[cmd[p].id]) = Fields(ApplyCommand(cmd[p], snap[p]))

\* both calls read before either wrote; the first writer's title is gone
C8_Witness ==
    /\ repoKind = "prisma"
    /\ \E p, q \in Procs :
           /\ p # q
           /\ pc[p] = "done" /\ pc[q] = "done"
           /\ stale[p] /\ lastWriter = p
           /\ snap[q] = snap[p]
           /\ res[p].kind = "returned" /\ res[q].kind = "returned"
           /\ res[q].todo.title = StrB
           /\ rows[1].title = StrA
           /\ rows[1].status = "IN_PROGRESS"

(***************************************************************************)
(* C9.  Concurrent UpdateTodo calls on one existing id, each asking only   *)
(* for a valid new title (with or without a description): every call       *)
(* succeeds in every interleaving, and once all have ended the stored      *)
(* title is one of the requested titles.                                   *)
(***************************************************************************)
TitleUpdate(c) ==
    /\ c.op = "update"
    /\ ValidTitle(c.params.title)
    /\ c.params.status = UndefinedStatus

C9_ConcurrentTitleUpdates ==
    (\A p \in Procs : TitleUpdate(cmd[p])) =>
        /\ \A p \in Procs : pc[p] = "done" => res[p].kind = "returned"
        /\ (\A p \in Procs : pc[p] = "done") =>
               rows[1].title \in {TrimmedOf(cmd[p].params.title) : p \in Procs}

C9_Witness ==
    /\ \A p \in Procs : TitleUpdate(cmd[p]) /\ pc[p] = "done"
    /\ lastWriter = 1
    /\ stale[1]
    /\ cmd[1].params.title = StrB
    /\ cmd[2].params.title = StrC
    /\ rows[1].title = StrB

(***************************************************************************)
(* C10.  The status state machine has no terminal state: from every        *)
(* status every other status is reached by a finite sequence of            *)
(* successful Todo.changeStatus calls.                                     *)
(***************************************************************************)
\* the statuses one more changeStatus call reaches from the statuses of S
ChangeStatusStep(t, S) ==
    S \cup {Todo_changeStatus([t EXCEPT !.status = a], b, now).todo.status :
                a \in S, b \in TODO_STATUS}

RECURSIVE ChangeStatusReach(_, _, _)
ChangeStatusReach(t, S, k) ==
    IF k = 0 THEN S ELSE ChangeStatusReach(t, ChangeStatusStep(t, S), k - 1)

C10_NoTerminalState ==
    todo # NoTodo =>
        /\ ChangeStatusReach(todo, {todo.status}, Cardinality(TODO_STATUS)) = TODO_STATUS
        /\ \E b \in TODO_STATUS \ {todo.status} :
               Todo_changeStatus(todo, b, now).err = NoError

C10_Witness ==
    /\ last.op = "changeStatus"
    /\ chain.op = "changeStatus"
    /\ chain.from = "COMPLETED"
    /\ chain.len = 2
    /\ todo.status = "IN_PROGRESS"

(***************************************************************************)
(* C11.  The status of a Todo is always one of PENDING, IN_PROGRESS,       *)
(* COMPLETED, whatever calls succeeded or failed before; reconstruct with  *)
(* any other status string fails and yields no entity.                     *)
(***************************************************************************)
C11_StatusDomain ==
    /\ todo # NoTodo => todo.status \in {"PENDING", "IN_PROGRESS", "COMPLETED"}
    /\ (last.op = "reconstruct" /\ last.arg \notin {"PENDING", "IN_PROGRESS", "COMPLETED"})
       => (last.err # NoError /\ todo = NoTodo)

C11_Witness ==
    /\ last.op = "reconstruct"
    /\ last.arg = "UNKNOWN"
    /\ last.err.kind = "Error"
    /\ todo = NoTodo

(***************************************************************************)
(* C12.  A Todo built by Todo.create keeps, through every later call       *)
(* (failed ones included), a title that is not empty or whitespace-only,   *)
(* has no leading or trailing whitespace and is 1 to 100 characters long.  *)
(***************************************************************************)
C12_TitleInvariant ==
    (todo # NoTodo /\ Todo_isNew(todo)) =>
        /\ todo.title.kind = "str"
        /\ todo.title.n >= 1
        /\ todo.title.lead = 0 /\ todo.title.trail = 0
        /\ StrLength(todo.title) >= 1 /\ StrLength(todo.title) <= 100

C12_Witness ==
    /\ todo # NoTodo /\ Todo_isNew(todo)
    /\ last.op = "updateTitle"
    /\ last.arg = MkStr(0, "a", 101, 0)
    /\ last.err.kind = "INVALID_TODO_TITLE"
    /\ last.pre.title = MkStr(0, "a", 100, 0)
    /\ todo.title = MkStr(0, "a", 100, 0)

(***************************************************************************)
(* C13.  The description of a Todo built by Todo.create with any           *)
(* description value, and then changed by any updateDescription / update   *)
(* calls, is never the empty string: it is null or a non-empty text.       *)
(***************************************************************************)
C13_DescriptionNeverEmpty ==
    (todo # NoTodo /\ Todo_isNew(todo)) => todo.description # EmptyStr

(***************************************************************************)
(* C14.  A behaviour call (complete, uncomplete, toggleComplete,           *)
(* changeStatus, updateTitle, updateDescription, update) stamps updatedAt  *)
(* with the clock if and only if it changed title, description or status;  *)
(* a call that changed none of them leaves updatedAt as it was.            *)
(***************************************************************************)
BehaviourOps ==
    {"complete", "uncomplete", "toggleComplete", "changeStatus", "updateTitle",
     "updateDescription", "update"}

C14_UpdatedAtOnEffectiveMutation ==
    last.op \in BehaviourOps =>
        IF Fields(todo) # Fields(last.pre)
        THEN todo.updatedAt = last.at
        ELSE todo.updatedAt = last.pre.updatedAt

\* a call that changed nothing, made after the clock moved on
C14_Witness ==
    /\ last.op = "updateDescription"
    /\ last.arg = MkStr(1, "d", 1, 0)
    /\ Fields(todo) = Fields(last.pre)
    /\ last.pre.updatedAt = 0
    /\ last.at = 1
    /\ todo.updatedAt = 0

(***************************************************************************)
(* C15.  For a Todo built by Todo.create, updatedAt = createdAt at         *)
(* creation and updatedAt >= createdAt after every sequence of behaviour   *)
(* calls, the clock never going backwards.                                 *)
(***************************************************************************)
C15_UpdatedAtNotBeforeCreatedAt ==
    /\ (todo # NoTodo /\ Todo_isNew(todo)) => todo.updatedAt >= todo.createdAt
    /\ (todo # NoTodo /\ last.op = "create") =>
           (todo.updatedAt = todo.createdAt /\ todo.createdAt = last.at)

C15_Witness ==
    /\ todo # NoTodo /\ Todo_isNew(todo)
    /\ last.op \in BehaviourOps
    /\ todo.createdAt = 0
    /\ todo.updatedAt = 1

(***************************************************************************)
(* C16.  Todo.changeStatus with the current status as target is a no-op    *)
(* for every status: it does not fail, although TodoStatus.transitionTo    *)
(* rejects the same pair, and status and updatedAt stay as they were.      *)
(***************************************************************************)
C16_ChangeStatusToSelf ==
    (last.op = "changeStatus" /\ last.arg = last.pre.status) =>
        /\ last.err = NoError
        /\ todo = last.pre
        /\ ~transitionTo(last.pre.status, last.arg).ok

C16_Witness ==
    /\ last.op = "changeStatus"
    /\ last.arg = "IN_PROGRESS"
    /\ last.pre.status = "IN_PROGRESS"
    /\ last.err = NoError
    /\ last.pre.updatedAt = 0
    /\ last.at = 1
    /\ todo.updatedAt = 0

(***************************************************************************)
(* C17.  Todo.complete() never fails and is idempotent: on a COMPLETED     *)
(* entity it changes nothing; on a PENDING or IN_PROGRESS entity it sets   *)
(* COMPLETED and stamps updatedAt; a second call leaves the state the      *)
(* first call produced.                                                    *)
(***************************************************************************)
C17_CompleteIdempotent ==
    /\ last.op = "complete" =>
           /\ last.err = NoError
           /\ IF last.pre.status = "COMPLETED"
              THEN todo = last.pre
              ELSE todo = [last.pre EXCEPT !.status = "COMPLETED", !.updatedAt = last.at]
    /\ todo # NoTodo =>
           LET once == Todo_complete(todo, now) IN
           /\ once.err = NoError
           /\ \A later \in now..MaxClock :
                  Todo_complete(once.todo, later) = Returned(once.todo)

\* complete() on an entity completed at an earlier clock reading
C17_Witness ==
    /\ last.op = "complete"
    /\ last.pre.status = "COMPLETED"
    /\ last.pre.updatedAt = 0
    /\ last.at = 1
    /\ todo.status = "COMPLETED"
    /\ todo.updatedAt = 0

(***************************************************************************)
(* C18.  Todo.uncomplete() never fails: on a PENDING entity it is a no-op; *)
(* on an IN_PROGRESS or COMPLETED entity it sets PENDING and stamps        *)
(* updatedAt.                                                              *)
(***************************************************************************)
C18_Uncomplete ==
    last.op = "uncomplete" =>
        /\ last.err = NoError
        /\ IF last.pre.status = "PENDING"
           THEN todo = last.pre
           ELSE todo = [last.pre EXCEPT !.status = "PENDING", !.updatedAt = last.at]

C18_Witness ==
    /\ last.op = "uncomplete"
    /\ last.pre.status = "IN_PROGRESS"
    /\ last.pre.updatedAt = 0
    /\ last.at = 1
    /\ todo.status = "PENDING"
    /\ todo.updatedAt = 1

(***************************************************************************)
(* C19.  Todo.updateTitle(t) with a valid t: when the trimmed t equals the *)
(* current title, title and updatedAt stay; when it differs, the title     *)
(* becomes the trimmed t and updatedAt is stamped; status and description  *)
(* are unchanged either way.                                               *)
(***************************************************************************)
C19_UpdateTitleValid ==
    (last.op = "updateTitle" /\ ValidTitle(last.arg)) =>
        /\ last.err = NoError
        /\ IF TrimmedOf(last.arg) = last.pre.title
           THEN todo = last.pre
           ELSE todo = [last.pre EXCEPT !.title = TrimmedOf(last.arg),
                                        !.updatedAt = last.at]

C19_Witness ==
    /\ last.op = "updateTitle"
    /\ last.arg = MkStr(1, "a", 1, 1)
    /\ last.pre.title = StrA
    /\ last.pre.updatedAt = 0
    /\ last.at = 1
    /\ todo.title = StrA
    /\ todo.updatedAt = 0

(***************************************************************************)
(* C20.  Todo.updateTitle(t) with an invalid t (absent, empty or           *)
(* whitespace-only, or longer than 100 after trimming) fails with          *)
(* InvalidTitle and leaves title, description, status and updatedAt        *)
(* unchanged.                                                              *)
(***************************************************************************)
C20_UpdateTitleInvalid ==
    (last.op = "updateTitle" /\ ~ValidTitle(last.arg)) =>
        /\ last.err.kind = "INVALID_TODO_TITLE"
        /\ todo = last.pre

C20_Witness ==
    /\ last.op = "updateTitle"
    /\ last.arg = MkStr(1, "", 0, 0)
    /\ last.err.kind = "INVALID_TODO_TITLE"
    /\ last.pre.updatedAt = 0
    /\ last.at = 1
    /\ todo = last.pre

(***************************************************************************)
(* C21.  Todo.updateDescription(d) stores the trimmed d, with null, ''     *)
(* and whitespace-only text stored as null; when the normalized value      *)
(* equals the stored description nothing changes, otherwise the            *)
(* description is replaced and updatedAt is stamped.  It never fails.      *)
(***************************************************************************)
C21_UpdateDescription ==
    last.op = "updateDescription" =>
        /\ last.err = NoError
        /\ IF NormalizedDescription(last.arg) = last.pre.description
           THEN todo = last.pre
           ELSE todo = [last.pre EXCEPT !.description = NormalizedDescription(last.arg),
                                        !.updatedAt = last.at]

C21_Witness ==
    /\ last.op = "updateDescription"
    /\ last.arg = EmptyStr
    /\ last.pre.description = StrD
    /\ last.pre.updatedAt = 0
    /\ last.at = 1
    /\ todo.description = Null
    /\ todo.updatedAt = 1

(***************************************************************************)
(* C22.  Todo.update(partial) changes a field only if it is provided: an   *)
(* undefined field leaves the entity's field as it was, a null description *)
(* (reached when the title, if given, is valid) clears the description,    *)
(* and an update with no field provided changes nothing.                   *)
(***************************************************************************)
C22_UpdateOnlyProvided ==
    last.op = "update" =>
        /\ last.arg.title = Undefined => todo.title = last.pre.title
        /\ last.arg.description = Undefined => todo.description = last.pre.description
        /\ last.arg.status = UndefinedStatus => todo.status = last.pre.status
        /\ (/\ last.arg.description = Null
            /\ last.arg.title = Undefined \/ ValidTitle(last.arg.title))
           => todo.description = Null
        /\ (/\ last.arg.title = Undefined
            /\ last.arg.description = Undefined
            /\ last.arg.status = UndefinedStatus)
           => (last.err = NoError /\ todo = last.pre)

C22_Witness ==
    /\ last.op = "update"
    /\ last.arg = [title |-> Undefined, description |-> Null, status |-> UndefinedStatus]
    /\ last.err = NoError
    /\ last.pre.description = StrD
    /\ last.pre.updatedAt = 0
    /\ last.at = 1
    /\ todo = [last.pre EXCEPT !.description = Null, !.updatedAt = 1]

(***************************************************************************)
(* C23.  TodoTitle.create(s) fails with InvalidTitle exactly when s is     *)
(* null or undefined, or s trimmed is empty, or s trimmed is longer than   *)
(* 100 characters; trimmed length 100 succeeds and 101 fails.              *)
(***************************************************************************)
C23_TitleCreateFailsExactly ==
    tvLast.op = "create" =>
        LET s == tvLast.arg
            invalid == s.kind # "str" \/ s.n = 0 \/ s.n > 100
        IN /\ ~tvLast.ret.ok <=> invalid
           /\ ~tvLast.ret.ok => tvLast.ret.err.kind = "INVALID_TODO_TITLE"
           /\ (s.kind = "str" /\ s.n = 100) => tvLast.ret.ok
           /\ (s.kind = "str" /\ s.n = 101) => ~tvLast.ret.ok

C23_Witness ==
    /\ tvLast.op = "create"
    /\ tvLast.arg = MkStr(0, "a", 101, 0)
    /\ ~tvLast.ret.ok
    /\ tvLast.ret.err.kind = "INVALID_TODO_TITLE"
    /\ tvLast.ret.err.reason = "tooLong"

(***************************************************************************)
(* C24.  For every string s whose trimmed length is 1 to 100,              *)
(* TodoTitle.create(s) succeeds with value trim(s), and create applied to  *)
(* its own output gives the same title again.                              *)
(***************************************************************************)
C24_TitleCreateTrims ==
    (tvLast.op = "create" /\ ValidTitle(tvLast.arg)) =>
        /\ tvLast.ret.ok
        /\ tvLast.ret.value = TrimmedOf(tvLast.arg)
        /\ tv = tvLast.ret.value
        /\ TodoTitle_create(tvLast.ret.value) = tvLast.ret

C24_Witness ==
    /\ tvLast.op = "create"
    /\ tvLast.arg = MkStr(1, "a", 100, 1)
    /\ tvLast.ret.ok
    /\ tv = MkStr(0, "a", 100, 0)

(***************************************************************************)
(* C25.  Todo.create with a valid title and no description yields an       *)
(* entity with status PENDING, description null, id null and isNew() true; *)
(* with an invalid title it fails with InvalidTitle and yields no entity.  *)
(***************************************************************************)
C25_TodoCreate ==
    last.op = "create" =>
        IF ValidTitle(last.arg.title)
        THEN /\ last.err = NoError
             /\ todo # NoTodo
             /\ todo.status = "PENDING"
             /\ todo.id = NullId
             /\ Todo_isNew(todo)
             /\ todo.title = TrimmedOf(last.arg.title)
             /\ last.arg.description = Undefined => todo.description = Null
        ELSE /\ last.err.kind = "INVALID_TODO_TITLE"
             /\ todo = NoTodo

C25_Witness ==
    /\ last.op = "create"
    /\ last.arg = [title |-> StrA, description |-> Undefined]
    /\ last.err = NoError
    /\ todo.status = "PENDING"
    /\ todo.description = Null
    /\ Todo_isNew(todo)

(***************************************************************************)
(* C26.  Todo.equals is identity by id: a.equals(b) is true iff both ids   *)
(* are non-null and equal, whatever the other fields, or both ids are null *)
(* and a and b are the same instance; a null id never equals a non-null    *)
(* id; equals is reflexive and symmetric.                                  *)
(***************************************************************************)
C26_EqualsById ==
    eqLast.op = "equals" =>
        LET a == objs[eqLast.self]
            b == objs[eqLast.other]
            sameInstance == eqLast.self = eqLast.other
        IN /\ eqLast.ret <=> \/ (a.id # NullId /\ b.id # NullId /\ a.id = b.id)
                             \/ (a.id = NullId /\ b.id = NullId /\ sameInstance)
           /\ (a.id = NullId) # (b.id = NullId) => ~eqLast.ret
           /\ sameInstance => eqLast.ret
           /\ eqLast.ret = Todo_equals(eqLast.other, eqLast.self)

\* two instances with the same id and different fields are equal
C26_Witness ==
    /\ eqLast.op = "equals"
    /\ eqLast.self # eqLast.other
    /\ objs[eqLast.self].id = 1
    /\ objs[eqLast.other].id = 1
    /\ objs[eqLast.self].title # objs[eqLast.other].title
    /\ objs[eqLast.self].status # objs[eqLast.other].status
    /\ eqLast.ret

(***************************************************************************)
(* C27.  No behaviour method of Todo changes id or createdAt, and the todo *)
(* UpdateTodo / ToggleTodo return and leave in the store has the id and    *)
(* createdAt it was loaded with; a stored todo keeps its id.               *)
(***************************************************************************)
BehaviourResults(t, clock) ==
    {Todo_complete(t, clock), Todo_uncomplete(t, clock), Todo_toggleComplete(t, clock)}
    \cup {Todo_changeStatus(t, st, clock) : st \in TODO_STATUS}
    \cup {Todo_updateTitle(t, x, clock) : x \in TitleInputs}
    \cup {Todo_updateDescription(t, d, clock) : d \in DescriptionInputs}
    \cup {Todo_update(t, params, clock) : params \in UpdateParams}

C27_IdAndCreatedAtFixed ==
    /\ \A i \in stored : rows[i].id = i
    /\ (\A p \in Procs : pc[p] = "idle") =>
           \A i \in stored, clock \in 0..MaxClock :
               \A r \in BehaviourResults(rows[i], clock) :
                   r.todo.id = rows[i].id /\ r.todo.createdAt = rows[i].createdAt
    /\ \A p \in Procs :
           (/\ pc[p] = "done"
            /\ cmd[p].op \in {"update", "toggle"}
            /\ res[p].kind = "returned")
           => /\ res[p].todo.id = cmd[p].id
              /\ res[p].todo.id = snap[p].id
              /\ res[p].todo.createdAt = snap[p].createdAt
              /\ rows[cmd[p].id].id = snap[p].id
              /\ rows[cmd[p].id].createdAt = snap[p].createdAt

C27_Witness ==
    /\ pc[1] = "done"
    /\ cmd[1] = [op |-> "toggle", id |-> 2]
    /\ stored = {1, 2}
    /\ res[1].kind = "returned"
    /\ res[1].todo.id = 2
    /\ res[1].todo.status = "COMPLETED"
    /\ rows[2].status = "COMPLETED"

(***************************************************************************)
(* C28.  CreateTodo.execute with a valid title calls repository save once  *)
(* with a new entity (id null, PENDING) and returns the persisted todo     *)
(* with a fresh non-null id and status PENDING; with an invalid title it   *)
(* fails with InvalidTitle, save is not called and the store is unchanged. *)
(***************************************************************************)
C28_CreateStep(p) ==
    (pc[p] = "called" /\ cmd[p].op = "create" /\ pc'[p] # "called") =>
        LET built == Todo_create(cmd[p].title, cmd[p].description, now) IN
        IF ValidTitle(cmd[p].title)
        THEN /\ Todo_isNew(built.todo) /\ built.todo.status = "PENDING"
             /\ pc'[p] = "done"
             /\ writes'[p] = 1
             /\ res'[p].kind = "returned"
             /\ res'[p].todo.id # NullId
             /\ res'[p].todo.id \notin stored
             /\ res'[p].todo.status = "PENDING"
             /\ res'[p].todo.title = TrimmedOf(cmd[p].title)
             /\ stored' = stored \cup {res'[p].todo.id}
             /\ rows'[res'[p].todo.id] = res'[p].todo
             /\ \A i \in stored : rows'[i] = rows[i]
        ELSE /\ pc'[p] = "done"
             /\ res'[p].kind = "threw"
             /\ res'[p].err.kind = "INVALID_TODO_TITLE"
             /\ writes'[p] = 0
             /\ storeVars' = storeVars

C28_CreateTodo == [][\A p \in Procs : C28_CreateStep(p)]_vars

C28_Witness ==
    /\ pc[1] = "done"
    /\ cmd[1].op = "create"
    /\ writes[1] = 1
    /\ res[1].kind = "returned"
    /\ res[1].todo.id = 2
    /\ res[1].todo.status = "PENDING"
    /\ stored = {1, 2}

(***************************************************************************)
(* C29.  GetTodoById.execute(id) returns the stored todo when findById     *)
(* finds one and fails with TodoNotFound carrying the id exactly when      *)
(* findById returns absent; it never writes to the repository.             *)
(***************************************************************************)
C29_GetStep(p) ==
    (pc[p] = "called" /\ cmd[p].op = "getById" /\ pc'[p] # "called") =>
        /\ pc'[p] = "done"
        /\ IF cmd[p].id \in stored
           THEN res'[p] = ReturnedTodo(rows[cmd[p].id])
           ELSE res'[p] = Threw(TodoNotFoundError(cmd[p].id))
        /\ writes'[p] = 0
        /\ storeVars' = storeVars

C29_GetTodoById == [][\A p \in Procs : C29_GetStep(p)]_vars

C29_Witness ==
    /\ pc[1] = "done"
    /\ cmd[1] = [op |-> "getById", id |-> 1]
    /\ res[1].kind = "returned"
    /\ res[1].todo.id = 1
    /\ res[1].todo.title = StrB
    /\ res[1].todo = rows[1]
    /\ writes[1] = 0

(***************************************************************************)
(* C30.  DeleteTodo.execute(id) on an existing id, after its findById,     *)
(* calls repository delete(id) and returns nothing, and the id is gone     *)
(* from the store; afterwards GetTodoById(id) and a second DeleteTodo(id)  *)
(* fail with TodoNotFound.                                                 *)
(***************************************************************************)
\* ids are handed out in order and never again: an id below nextId that the
\* store does not hold was deleted
Deleted(id) == id < nextId /\ id \notin stored

C30_DeleteStep(p) ==
    /\ (pc[p] = "loaded" /\ cmd[p].op = "delete" /\ pc'[p] # "loaded") =>
           /\ pc'[p] = "done"
           /\ res'[p] = ReturnedVoid
           /\ writes'[p] = 1
           /\ stored' = stored \ {cmd[p].id}
           /\ nextId' = nextId
           /\ \A i \in stored' : rows'[i] = rows[i]
    /\ (/\ pc[p] = "called" /\ cmd[p].op \in {"getById", "delete"}
        /\ Deleted(cmd[p].id) /\ pc'[p] # "called") =>
           /\ pc'[p] = "done"
           /\ res'[p] = Threw(TodoNotFoundError(cmd[p].id))
           /\ writes'[p] = 0
           /\ storeVars' = storeVars

C30_DeleteTodo == [][\A p \in Procs : C30_DeleteStep(p)]_vars

\* the second DeleteTodo on a deleted id
C30_Witness ==
    /\ pc[1] = "done"
    /\ cmd[1] = [op |-> "delete", id |-> 1]
    /\ nextId > 1
    /\ 1 \notin stored
    /\ res[1] = Threw(TodoNotFoundError(1))
    /\ writes[1] = 0

(***************************************************************************)
(* C31.  ToggleTodo.execute(id) on an existing id never fails with         *)
(* InvalidStatusTransition, persists the toggled status through repository *)
(* update and returns it, and the store then shows it; from a PENDING      *)
(* todo the k-th toggle gives COMPLETED for odd k and PENDING for even k.  *)
(***************************************************************************)
Flip(status) == IF status = "COMPLETED" THEN "PENDING" ELSE "COMPLETED"

RECURSIVE ToggleTimes(_, _)
ToggleTimes(t, k) ==
    IF k = 0 THEN t ELSE Todo_toggleComplete(ToggleTimes(t, k - 1), now).todo

C31_ToggleStep(p) ==
    /\ (pc[p] = "loaded" /\ cmd[p].op = "toggle" /\ pc'[p] # "loaded") =>
           pc'[p] = "applied"
    /\ (pc[p] = "applied" /\ cmd[p].op = "toggle" /\ pc'[p] # "applied") =>
           /\ pc'[p] = "done"
           /\ writes'[p] = 1
           /\ res'[p].kind = "returned"
           /\ res'[p].todo.id = cmd[p].id
           /\ res'[p].todo.status = Flip(snap[p].status)
           /\ rows'[cmd[p].id].status = res'[p].todo.status
           /\ cmd[p].id \in stored'
           /\ snap[p].status = "PENDING" =>
                  \A k \in 1..4 :
                      ToggleTimes(snap[p], k).status =
                          IF k % 2 = 1 THEN "COMPLETED" ELSE "PENDING"

C31_ToggleTodo == [][\A p \in Procs : C31_ToggleStep(p)]_vars

\* a toggle of a COMPLETED todo: back to PENDING
C31_Witness ==
    /\ pc[1] = "done"
    /\ cmd[1] = [op |-> "toggle", id |-> 1]
    /\ res[1].kind = "returned"
    /\ snap[1].status = "COMPLETED"
    /\ res[1].todo.status = "PENDING"
    /\ rows[1].status = "PENDING"
    /\ writes[1] = 1

(***************************************************************************)
(* C32.  findAll(pagination, filter) with limit >= 1: page defaults to 1   *)
(* and limit to 10; total is the number of stored todos matching the       *)
(* filter whatever the page; data is the slice of the matching todos at    *)
(* offsets (page-1)*limit .. page*limit-1, so it has at most limit items   *)
(* and none for a page past the end; totalPages is ceil(total / limit).    *)
(***************************************************************************)
C32_Page(p) ==
    LET r == res[p]
        pagination == cmd[p].pagination
        kept == Matching(repoKind, cmd[p].filter)
        first == (r.page - 1) * r.limit
    IN /\ r.page = IF Has(pagination, "page") THEN pagination.page ELSE 1
       /\ r.limit = IF Has(pagination, "limit") THEN pagination.limit ELSE 10
       /\ r.total = Cardinality(kept)
       /\ Len(r.data) <= r.limit
       /\ first >= r.total => r.data = <<>>
       /\ first < r.total =>
              Len(r.data) = IF r.total - first < r.limit THEN r.total - first ELSE r.limit
       /\ \E ord \in [1..r.total -> kept] :
              /\ \A i, j \in 1..r.total : i # j => ord[i] # ord[j]
              /\ \A k \in 1..Len(r.data) : r.data[k] = rows[ord[first + k]]
       /\ repoKind = "memory" =>
              \A k \in 1..Len(r.data) :
                  Cardinality({i \in kept : i < r.data[k].id}) = first + k - 1
       /\ r.totalPages * r.limit >= r.total
       /\ (r.totalPages - 1) * r.limit < r.total

C32_FindAll ==
    \A p \in Procs :
        (pc[p] = "done" /\ cmd[p].op = "getTodos") =>
            /\ res[p].kind = "page"
            /\ C32_Page(p)

\* three matching todos, two per page: page 2 holds the last one
C32_Witness ==
    /\ pc[1] = "done"
    /\ cmd[1].op = "getTodos"
    /\ cmd[1].pagination = [page |-> 2, limit |-> 2]
    /\ Has(cmd[1].filter, "titleSearch")
    /\ cmd[1].filter.titleSearch = StrA
    /\ res[1].total = 3
    /\ Len(res[1].data) = 1
    /\ res[1].totalPages = 2

(***************************************************************************)
(* C33.  Repository save gives every new todo a non-null id that no todo   *)
(* saved before it ever had: ids grow with each save, the id of a deleted  *)
(* todo is not handed out again, and every stored todo carries the id it   *)
(* is stored under.                                                        *)
(***************************************************************************)
C33_Step ==
    /\ nextId' >= nextId
    /\ \A i \in stored' : i < nextId' /\ rows'[i].id = i
    /\ ~(stored' \subseteq stored) =>
           /\ stored' = stored \cup {nextId}
           /\ nextId \notin stored
           /\ nextId # NullId
           /\ nextId' = nextId + 1
           /\ \E p \in Procs :
                  /\ pc[p] = "called" /\ cmd[p].op = "create"
                  /\ res'[p].kind = "returned"
                  /\ res'[p].todo.id = nextId
                  /\ rows'[nextId] = res'[p].todo

C34_Step(p) ==
    (cmd[p].op \in {"update", "toggle"} /\ pc'[p] # pc[p]) =>
        \A i \in stored :
            (i \in stored' /\ rows'[i].status # rows[i].status) =>
                /\ i = cmd[p].id
                /\ TableAllows(rows[i].status, rows'[i].status)
                /\ ~(rows[i].status = "COMPLETED" /\ rows'[i].status = "IN_PROGRESS")

C34_SequentialStatusChanges == [][\A p \in Procs : C34_Step(p)]_vars

\* an UpdateTodo moved the stored todo from PENDING to IN_PROGRESS
C34_Witness ==
    /\ pc[1] = "done"
    /\ cmd[1].op = "update"
    /\ res[1].kind = "returned"
    /\ cmd[1].params.status = "IN_PROGRESS"
    /\ snap[1].status = "PENDING"
    /\ rows[cmd[1].id].status = "IN_PROGRESS"

(***************************************************************************)
(* C35.  In every execution, also when UpdateTodo / ToggleTodo calls on    *)
(* the same id interleave between findById and repository update, every    *)
(* change of the persisted status of a todo is a transition the table      *)
(* allows (never COMPLETED straight to IN_PROGRESS).                       *)
(***************************************************************************)
C35_PersistedStatusStep ==
    \A i \in stored \cap stored' :
        rows'[i].status # rows[i].status =>
            TableAllows(rows[i].status, rows'[i].status)

C35_InterleavedStatusChanges == [][C35_PersistedStatusStep]_vars

(***************************************************************************)
(* C36.  A deleted todo is never resurrected: once DeleteTodo(id) has      *)
(* succeeded, findById(id) returns absent for the rest of the execution,   *)
(* also when an UpdateTodo or ToggleTodo for the id had loaded the todo    *)
(* before the delete and calls repository update after it, and also after  *)
(* later saves of new todos.                                               *)
(***************************************************************************)
C36_Step(p) ==
    /\ \A i \in Ids : Deleted(i) => Deleted(i)'
    /\ (pc[p] = "called" /\ cmd[p].op # "create" /\ Deleted(cmd[p].id)
            /\ pc'[p] # pc[p]) =>
           res'[p] = Threw(TodoNotFoundError(cmd[p].id))

C36_NoResurrection == [][\A p \in Procs : C36_Step(p)]_vars

\* an UpdateTodo that loaded todo 1 before it was deleted has called
\* repository update after the delete, and a new todo was saved since
C36_Witness ==
    \E p \in Procs :
        /\ pc[p] = "done"
        /\ cmd[p].op = "update"
        /\ snap[p] # NoTodo
        /\ writes[p] = 1
        /\ res[p] = Threw(PrismaRecordNotFound)
        /\ Deleted(1)
        /\ 2 \in stored

(***************************************************************************)
(* C37.  After any toggleComplete the status is PENDING or COMPLETED,      *)
(* never IN_PROGRESS; two consecutive toggleComplete calls restore the     *)
(* original status exactly when it was PENDING or COMPLETED, and from      *)
(* IN_PROGRESS they end in PENDING.                                        *)
(***************************************************************************)
ToggleTwice(t) == Todo_toggleComplete(Todo_toggleComplete(t, now).todo, now).todo

C37_ToggleTwice ==
    /\ last.op = "toggleComplete" => todo.status \in {"PENDING", "COMPLETED"}
    /\ todo # NoTodo =>
           /\ Todo_toggleComplete(todo, now).todo.status \in {"PENDING", "COMPLETED"}
           /\ ToggleTwice(todo).status = todo.status
                  <=> todo.status \in {"PENDING", "COMPLETED"}
           /\ todo.status = "IN_PROGRESS" => ToggleTwice(todo).status = "PENDING"
    /\ (chain.op = "toggleComplete" /\ chain.len = 2 /\ chain.from = "IN_PROGRESS"
        /\ last.pre.status = "COMPLETED")
           => todo.status = "PENDING"
    /\ (chain.op = "toggleComplete" /\ chain.len = 2 /\ chain.from = "COMPLETED"
        /\ last.pre.status = "PENDING")
           => todo.status = "COMPLETED"

\* the second toggle of a todo that was IN_PROGRESS: it is PENDING now
C37_Witness ==
    /\ last.op = "toggleComplete"
    /\ chain.op = "toggleComplete"
    /\ chain.from = "IN_PROGRESS"
    /\ chain.len = 2
    /\ last.pre.status = "COMPLETED"
    /\ todo.status = "PENDING"

(***************************************************************************)
(* C38.  The three views of the transition table agree for every todo and  *)
(* every target t other than the current status: t is listed by            *)
(* getAvailableTransitions() iff canTransitionTo(t) iff changeStatus(t)    *)
(* succeeds; the list never holds the current status and is never empty.   *)
(***************************************************************************)
C38_TransitionViewsAgree ==
    todo # NoTodo =>
        /\ \A t \in TODO_STATUS \ {todo.status} :
               /\ Includes(Todo_getAvailableTransitions(todo), t)
                      <=> Todo_canTransitionTo(todo, t)
               /\ Todo_canTransitionTo(todo, t)
                      <=> Todo_changeStatus(todo, t, now).err = NoError
               /\ Todo_changeStatus(todo, t, now).err = NoError
                      => Todo_changeStatus(todo, t, now).todo.status = t
        /\ ~Includes(Todo_getAvailableTransitions(todo), todo.status)
        /\ Todo_getAvailableTransitions(todo) # <<>>
        /\ (last.op = "changeStatus" /\ last.arg # last.pre.status) =>
               (last.err = NoError <=> Todo_canTransitionTo(last.pre, last.arg))

\* changeStatus(IN_PROGRESS) was refused on a COMPLETED todo, whose list
\* holds PENDING only
C38_Witness ==
    /\ last.op = "changeStatus"
    /\ last.arg = "IN_PROGRESS"
    /\ last.err # NoError
    /\ todo.status = "COMPLETED"
    /\ Todo_getAvailableTransitions(todo) = <<"PENDING">>
    /\ ~Todo_canTransitionTo(todo, "IN_PROGRESS")

(***************************************************************************)
(* C39.  Use cases touch only the todo they name: a CreateTodo,            *)
(* UpdateTodo, ToggleTodo or DeleteTodo call concerning id i, successful   *)
(* or failed, leaves title, description and status of every stored todo    *)
(* with another id unchanged and neither adds nor removes another todo.    *)
(***************************************************************************)
ConcernedId(p) == IF cmd[p].op = "create" THEN nextId ELSE cmd[p].id

C39_Step(p) ==
    (/\ pc[p] \in {"called", "loaded", "applied"}
     /\ cmd[p].op \in {"create", "update", "toggle", "delete"}
     /\ pc'[p] # pc[p]) =>
        \A j \in Ids \ {ConcernedId(p)} :
            /\ j \in stored' <=> j \in stored
            /\ j \in stored => Fields(rows'[j]) = Fields(rows[j])

C39_OnlyNamedTodoTouched == [][\A p \in Procs : C39_Step(p)]_vars

\* todo 1 was deleted while todo 2 is stored: todo 2 is still there
C39_Witness ==
    /\ pc[1] = "done"
    /\ cmd[1] = [op |-> "delete", id |-> 1]
    /\ res[1] = ReturnedVoid
    /\ stored = {2}
    /\ rows[2].id = 2

====
